---------------------------- MODULE Spec2Model ----------------------------
(***************************************************************************)
(* rcx: a bridge between native C++ code and the Ruby runtime.             *)
(*                                                                         *)
(* The model covers the inbound trampoline (alloc_callback / cxx_protect), *)
(* the argument parser (Parser::parse and the arg::* specs), the value     *)
(* conversions the parser uses, and the outbound protected call            *)
(* (detail::protect / check_jump_tag).  The Ruby runtime is the            *)
(* environment: it invokes trampolines and answers outbound calls by       *)
(* returning, raising an exception object or jumping with a tag.           *)
(***************************************************************************)
EXTENDS Integers, Sequences, FiniteSets, TLC

VARIABLES
  build,      \* the build: HAVE_ABI___CXA_* macros, library assertions
  stack,      \* the live trampoline invocations, outermost first
  errinfo,    \* the runtime's pending-error slot (rb_errinfo)
  nextId,     \* identity of the next object the runtime allocates
  outcome,    \* what the outermost managed caller received
  finished,   \* history: the invocation that ended last, and how it ended,
              \* and what the deepest invocation so far delivered
  inflight,   \* history: the error most recently raised or thrown, as created
  unprotected, \* history: runtime raises that unwound native frames directly
  conv,       \* history: the library call made last, its input and outcome
  data_type_, \* DataTypeStorage<T>::data_type_ of every native type T
  alloc_func, \* the allocation function the runtime holds for every class
  objects,    \* the shells the runtime has allocated, in allocation order
  payloads,   \* the native objects constructed, in construction order
  gc,         \* the collector: its phase and what it has marked and moved
  pins,       \* the Storage objects of the pinning wrappers, by address, and
              \* the addresses registered with the collector
  freed       \* history: the payloads dfree was called on, in call order

\* the state that the trampolines do not touch
lib == <<conv, data_type_, alloc_func, objects, payloads, gc, pins,
        freed>>

vars ==
  <<build, stack, errinfo, nextId, outcome, finished, inflight, unprotected,
    lib>>

---------------------------------------------------------------------------
(* Bounds of the model.                                                    *)

\* longest argument vector the runtime passes to a trampoline
MaxArgs == 3
\* deepest chain of managed -> native -> managed -> native invocations
MaxDepth == 2
\* deepest chain of invocations of the forwarding methods
NestDepth == 3
\* most shells the runtime allocates
MaxObjects == 2
\* most native objects constructed
MaxPayloads == 2
\* most exception objects the runtime allocates for failing library calls
MaxCalls == 1
\* most Storage objects of pinning wrappers alive at a time
MaxPins == 2
\* most pinning wrappers that share one Storage
MaxRefs == 2

---------------------------------------------------------------------------
(* Handles (VALUE).  Every handle is a record of the same shape so that    *)
(* any two handles can be compared: k is the object's class, i its integer *)
(* value or object identity, s its string content or exception class,      *)
(* m an exception's message, fz whether the object is frozen.              *)

Handle(k, i, s, m, fz) == [k |-> k, i |-> i, s |-> s, m |-> m, fz |-> fz]

Qnil == Handle("NilClass", 0, "", "", TRUE)

Qtrue == Handle("TrueClass", 0, "", "", TRUE)

Qfalse == Handle("FalseClass", 0, "", "", TRUE)

IntH(n) == Handle("Integer", n, "", "", TRUE)

StrH(x) == Handle("String", 0, x, "", FALSE)

\* an exception object of class cls: id is its identity
ExcH(id, cls, msg) == Handle("Exception", id, cls, msg, FALSE)

\* a shell of the native-bound class Base: payload 0 is "no payload yet"
ShellH(payload, frozen) == Handle("Base", payload, "", "", frozen)

(* Native values use the same record shape with the native type as k.      *)
Native(T, n) == Handle(T, n, "", "", FALSE)

NInt(n) == Handle("int", n, "", "", FALSE)

NBool(b) == Native("bool", IF b THEN 1 ELSE 0)

NSChar(n) == Handle("signed char", n, "", "", FALSE)

NStringView(x) == Handle("string_view", 0, x, "", FALSE)

NRef(payload) == Handle("Base&", payload, "", "", FALSE)

---------------------------------------------------------------------------
(* Native exceptions in flight inside a trampoline.                        *)

NoExn == [kind |-> "none", state |-> 0, val |-> Qnil, tname |-> "", what |-> ""]

\* struct Jump { int state; }
Jump(state) == [NoExn EXCEPT !.kind = "Jump", !.state = state]

\* RubyError::RubyError(Value exception)
RubyError(exception) == [NoExn EXCEPT !.kind = "RubyError", !.val = exception]

\* an exception derived from std::exception; tname is typeid(exc).name()
StdException(tname, what) ==
  [NoExn EXCEPT !.kind = "std", !.tname = tname, !.what = what]

\* anything else that is thrown, e.g. throw 42
OtherException(tname) == [NoExn EXCEPT !.kind = "other", !.tname = tname]

\* not an exception: a precondition assertion of the standard library
\* failed and called abort()
Aborted == [NoExn EXCEPT !.kind = "abort"]

---------------------------------------------------------------------------
(* The runtime as seen through rb_protect: a call into it ends in a state  *)
(* (0: returned; RUBY_TAG_RAISE: raised val; any other tag: a jump).       *)

RUBY_TAG_NONE == 0

RUBY_TAG_RAISE == 6

\* the transfer tags of the runtime (TAG_RETURN .. TAG_FATAL)
RubyTags == 1..8

Sig(state, val) == [state |-> state, val |-> val]

Returned(val) == Sig(RUBY_TAG_NONE, val)

Raised(exception) == Sig(RUBY_TAG_RAISE, exception)

\* rb_protect(func, arg, &state): runs the call; a raise leaves the
\* exception in the pending-error slot and the result is nil
rb_protect(sig, ei) ==
  [state   |-> sig.state,
   result  |-> IF sig.state = RUBY_TAG_NONE THEN sig.val ELSE Qnil,
   errinfo |-> IF sig.state = RUBY_TAG_RAISE THEN sig.val ELSE ei]

\* a check_jump_tag that takes every non-zero state for a raise
check_jump_tag_all_raise(state, ei) ==
  IF state = RUBY_TAG_NONE
    THEN [exn |-> NoExn, errinfo |-> ei]
    ELSE [exn |-> RubyError(ei), errinfo |-> Qnil]

\* a check_jump_tag that leaves the pending-error slot as it finds it
check_jump_tag_keep_errinfo(state, ei) ==
  CASE state = RUBY_TAG_NONE  -> [exn |-> NoExn, errinfo |-> ei]
    [] state = RUBY_TAG_RAISE -> [exn |-> RubyError(ei), errinfo |-> ei]
    [] OTHER                  -> [exn |-> Jump(state), errinfo |-> ei]

\* detail::check_jump_tag(int state)
check_jump_tag(state, ei) ==
  CASE state = RUBY_TAG_NONE  -> [exn |-> NoExn, errinfo |-> ei]
    [] state = RUBY_TAG_RAISE -> [exn |-> RubyError(ei), errinfo |-> Qnil]
    [] OTHER                  -> [exn |-> Jump(state), errinfo |-> ei]

\* detail::protect(functor) for a functor that returns void; sig is what
\* the runtime does with the call
protect_void(sig, ei) ==
  LET p == rb_protect(sig, ei)
      c == check_jump_tag(p.state, p.errinfo)
  IN  [exn |-> c.exn, result |-> Qnil, errinfo |-> c.errinfo]

\* detail::protect(functor) for a functor that returns a value.  When the
\* functor returns, the callback assigns its value through operator* of
\* an optional that holds no value, and protect reads it back the same
\* way: undefined behaviour.  A library built without assertions writes
\* and reads the optional's storage; one built with them aborts.
protect(sig, ei) ==
  LET p == rb_protect(sig, ei)
      c == check_jump_tag(p.state, p.errinfo)
  IN  IF p.state = RUBY_TAG_NONE /\ build.assertions
        THEN [exn |-> Aborted, result |-> Qnil, errinfo |-> p.errinfo]
        ELSE [exn |-> c.exn, result |-> p.result, errinfo |-> c.errinfo]

---------------------------------------------------------------------------
(* Runtime functions the conversions call.  id is the identity the         *)
(* runtime gives to an exception object it has to allocate.                *)

\* std::numeric_limits<int>::max() and min()
INT_MAX == 2147483647

INT_MIN == -INT_MAX - 1

\* NUM2INT / RB_NUM2INT
rb_num2int(h, id) ==
  IF h.k = "Integer"
    THEN IF h.i > INT_MAX
           THEN Raised(ExcH(id, "RangeError",
                  "integer " \o ToString(h.i) \o " too big to convert to `int'"))
         ELSE IF h.i < INT_MIN
           THEN Raised(ExcH(id, "RangeError",
                  "integer " \o ToString(h.i) \o " too small to convert to `int'"))
         ELSE Returned(NInt(h.i))
    ELSE Raised(ExcH(id, "TypeError",
           "no implicit conversion of " \o h.k \o " into Integer"))

\* rb_check_frozen
rb_check_frozen(h, id) ==
  IF h.fz
    THEN Raised(ExcH(id, "FrozenError", "can't modify frozen " \o h.k))
    ELSE Returned(Qnil)

\* the native types of spec/ext/test/main.hpp
Types == {"Base", "Derived", "Associated"}

\* the type S of the superclass given to define_class<T>: "Value" when the
\* superclass is not native-bound
SuperOf(T) == IF T = "Derived" THEN "Base" ELSE "Value"

\* std::derived_from<T, typed_data::TwoWayAssociation>
TwoWay(T) == T = "Associated"

\* the class of the runtime named name
ClassH(name) == Handle("Class", 0, name, "", FALSE)

\* data_type_ of a type that is not bound: std::nullopt
NoDataType == [bound |-> FALSE, function |-> {}, parent |-> "", data |-> Qnil]

\* the rb_data_type_t that DataTypeStorage<T>::bind stores; parent names the
\* type whose data_type_ it points to, "" for nullptr
DataTypeOf(klass, parent) ==
  [bound |-> TRUE, function |-> {"dmark", "dfree", "dsize", "dcompact"},
   parent |-> parent, data |-> klass]

\* rb_typeddata_inherited_p: the data type T, or one whose parent is T
InheritsDataType(k, T) ==
  k = T \/ (k \in Types /\ data_type_[k].bound /\ data_type_[k].parent = T)

\* rb_check_typeddata(value, DataType<Base>::get()): the data pointer
rb_check_typeddata(h, id) ==
  IF InheritsDataType(h.k, "Base")
    THEN Returned(NRef(h.i))
    ELSE Raised(ExcH(id, "TypeError",
           "wrong argument type " \o h.k \o " (expected Base)"))

\* rb_raise(klass, fmt, ...)
rb_raise(cls, msg, id) == Raised(ExcH(id, cls, msg))

\* static_cast<signed char>(int)
static_cast_signed_char(v) ==
  LET w == v % 256 IN IF w >= 128 THEN w - 256 ELSE w

\* RubyError::format(cls, fmt, args...): a RubyError holding a new instance
\* of cls; String::intern_from and new_instance, which make it, return
\* through the value-returning detail::protect
RubyError_format(cls, msg, id) ==
  IF build.assertions THEN Aborted ELSE RubyError(ExcH(id, cls, msg))

---------------------------------------------------------------------------
(* convert::from_Value<T> and into_Value<T>.  A conversion ends "ok" with  *)
(* a native value, "throw" with a native exception, "longjmp" when the     *)
(* runtime raised in a call that was not made through protect, or "abort"  *)
(* when the process was aborted.                                           *)

ConvOk(val, ei) ==
  [st |-> "ok", val |-> val, exn |-> NoExn, sig |-> Returned(Qnil),
   errinfo |-> ei, site |-> ""]

ConvAbort(ei) ==
  [st |-> "abort", val |-> Qnil, exn |-> NoExn, sig |-> Returned(Qnil),
   errinfo |-> ei, site |-> ""]

\* std::terminate was called: an exception reached the boundary of a
\* noexcept function
ConvTerminate(ei) ==
  [st |-> "terminate", val |-> Qnil, exn |-> NoExn, sig |-> Returned(Qnil),
   errinfo |-> ei, site |-> ""]

\* a throw expression whose operand evaluates to exn, unless evaluating it
\* aborted
ConvThrow(exn, ei) ==
  IF exn.kind = "abort" THEN ConvAbort(ei)
  ELSE [st |-> "throw", val |-> Qnil, exn |-> exn, sig |-> Returned(Qnil),
        errinfo |-> ei, site |-> ""]

ConvLongjmp(sig, ei, site) ==
  [st |-> "longjmp", val |-> Qnil, exn |-> NoExn, sig |-> sig,
   errinfo |-> ei, site |-> site]

\* the outcome of a call made through detail::protect
Protected(r) ==
  IF r.exn.kind = "none" THEN ConvOk(r.result, r.errinfo)
                         ELSE ConvThrow(r.exn, r.errinfo)

\* the outcome of a call into the runtime made directly
Direct(sig, ei, site) ==
  IF sig.state = RUBY_TAG_NONE THEN ConvOk(sig.val, ei)
                               ELSE ConvLongjmp(sig, ei, site)

\* FromValue<int>::convert (RCX_DEFINE_CONV)
FromValue_int(h, ei, id) == Protected(protect(rb_num2int(h, id), ei))

\* FromValue<signed char>::convert, from the range check on: v is the int
\* that NUM2INT returned and r its cast to signed char
signed_char_checked(v, r, ei, id) ==
  IF v # r
    THEN ConvThrow(RubyError_format("RangeError",
           "integer " \o ToString(v) \o " too "
             \o (IF v < 0 THEN "small" ELSE "big")
             \o " to convert to 'signed char'", id), ei)
    ELSE ConvOk(NSChar(r), ei)

\* FromValue<signed char>::convert, after NUM2INT, whose outcome is n
signed_char_narrow(n, ei, id) ==
  IF n.st # "ok" THEN n
  ELSE signed_char_checked(n.val.i, static_cast_signed_char(n.val.i), ei, id)

\* FromValue<signed char>::convert
FromValue_signed_char(h, ei, id) ==
  signed_char_narrow(
    Direct(rb_num2int(h, id), ei, "FromValue<signed char>: NUM2INT"), ei, id)

\* convert::FromValue<String>::convert
FromValue_String(h, ei, id) ==
  IF h.k # "String"
    THEN ConvLongjmp(
           rb_raise("TypeError", "Expected a String but got a " \o h.k, id),
           ei, "FromValue<String>: rb_raise")
    ELSE ConvOk(h, ei)

\* String::data(): the frozen check through detail::protect, then the
\* pointer to the bytes
String_data(h, ei, id) ==
  Protected(protect_void(rb_check_frozen(h, id), ei))

\* String::cdata() and String::size(): noexcept, no check
String_cdata(h, ei) == ConvOk(NStringView(h.s), ei)

\* String::operator std::string_view() const noexcept: {data(), size()};
\* d is the outcome of data().  The exception that data() throws for a
\* frozen string cannot leave the noexcept function: std::terminate
String_operator_string_view(h, d) ==
  IF d.st = "ok" THEN ConvOk(NStringView(h.s), d.errinfo)
                 ELSE ConvTerminate(d.errinfo)

\* std::string_view(String): s is the outcome of the expression that gives
\* the String
String_view(s, id) ==
  IF s.st # "ok" THEN s
  ELSE String_operator_string_view(s.val, String_data(s.val, s.errinfo, id))

\* convert::FromValue<std::string_view>::convert
FromValue_string_view(h, ei, id) ==
  String_view(FromValue_String(h, ei, id), id)

\* FromValue<T>::convert for T derived from WrappedStructBase, from the
\* data pointer on: d is the outcome of rb_check_typeddata
WrappedStruct_data(d) ==
  IF d.st # "ok" THEN d
  ELSE IF d.val.i = 0
    THEN ConvThrow(StdException("St13runtime_error",
                                "Object is not yet initialized"), d.errinfo)
  ELSE d

\* DataTypeStorage<T>::get
DataTypeStorage_get(T, ei) ==
  IF ~data_type_[T].bound
    THEN ConvThrow(StdException("St13runtime_error",
           "Type '" \o T \o "' is not yet bound to a Ruby Class"), ei)
    ELSE ConvOk(Handle("rb_data_type_t", 0, T, "", FALSE), ei)

\* FromValue<T>::convert for T derived from WrappedStructBase, from the
\* call of rb_check_typeddata on: g is the outcome of DataType<T>::get()
WrappedStruct_typed(g, h, id) ==
  IF g.st # "ok" THEN g
  ELSE WrappedStruct_data(Direct(rb_check_typeddata(h, id), g.errinfo,
                                 "FromValue<T>: rb_check_typeddata"))

\* FromValue<T>::convert for T derived from WrappedStructBase, after the
\* frozen check of the non-const T, whose outcome is f
WrappedStruct_checked(f, h, id) ==
  IF f.st # "ok" THEN f
  ELSE WrappedStruct_typed(DataTypeStorage_get("Base", f.errinfo), h, id)

\* a conversion that does not look at whether the object is frozen
FromValue_WrappedStruct_unchecked(h, ei, id, isConst) ==
  WrappedStruct_checked(ConvOk(Qnil, ei), h, id)

\* FromValue<T>::convert for T derived from WrappedStructBase
FromValue_WrappedStruct(h, ei, id, isConst) ==
  WrappedStruct_checked(
    IF isConst THEN ConvOk(Qnil, ei)
               ELSE Protected(protect_void(rb_check_frozen(h, id), ei)),
    h, id)

\* RB_TEST
RB_TEST(h) == h.k \notin {"NilClass", "FalseClass"}

\* convert::FromValue<bool>::convert
FromValue_bool(h, ei) == ConvOk(NBool(RB_TEST(h)), ei)

\* static_cast<unsigned char>(int)
static_cast_unsigned_char(v) == v % 256

\* FromValue<unsigned char>::convert, from the range check on: v is the int
\* that NUM2INT returned and r its cast to unsigned char
unsigned_char_checked(v, r, ei, id) ==
  IF v # r
    THEN ConvThrow(RubyError_format("RangeError",
           "integer " \o ToString(v) \o " too "
             \o (IF v < 0 THEN "small" ELSE "big")
             \o " to convert to 'unsigned char'", id), ei)
    ELSE ConvOk(Native("unsigned char", r), ei)

\* FromValue<unsigned char>::convert, after NUM2INT, whose outcome is n
unsigned_char_narrow(n, ei, id) ==
  IF n.st # "ok" THEN n
  ELSE unsigned_char_checked(n.val.i, static_cast_unsigned_char(n.val.i),
                             ei, id)

\* FromValue<unsigned char>::convert
FromValue_unsigned_char(h, ei, id) ==
  unsigned_char_narrow(
    Direct(rb_num2int(h, id), ei, "FromValue<unsigned char>: NUM2INT"), ei, id)

\* the least and the greatest value of a scalar type
TypeMin(T) ==
  CASE T = "bool" -> 0
    [] T = "signed char" -> -128
    [] T = "unsigned char" -> 0
    [] T = "short" -> -32768
    [] T = "unsigned short" -> 0
    [] T = "int" -> INT_MIN

TypeMax(T) ==
  CASE T = "bool" -> 1
    [] T = "signed char" -> 127
    [] T = "unsigned char" -> 255
    [] T = "short" -> 32767
    [] T = "unsigned short" -> 65535
    [] T = "int" -> INT_MAX

\* RB_NUM2SHORT
rb_num2short(h, id) ==
  IF h.k = "Integer"
    THEN IF h.i > TypeMax("short")
           THEN Raised(ExcH(id, "RangeError",
                  "integer " \o ToString(h.i) \o " too big to convert to `short'"))
         ELSE IF h.i < TypeMin("short")
           THEN Raised(ExcH(id, "RangeError",
                  "integer " \o ToString(h.i) \o " too small to convert to `short'"))
         ELSE Returned(Native("short", h.i))
    ELSE Raised(ExcH(id, "TypeError",
           "no implicit conversion of " \o h.k \o " into Integer"))

\* RB_NUM2USHORT: a negative number down to SHRT_MIN wraps around
rb_num2ushort(h, id) ==
  IF h.k = "Integer"
    THEN IF h.i > TypeMax("unsigned short")
           THEN Raised(ExcH(id, "RangeError",
                  "integer " \o ToString(h.i)
                    \o " too big to convert to `unsigned short'"))
         ELSE IF h.i < TypeMin("short")
           THEN Raised(ExcH(id, "RangeError",
                  "integer " \o ToString(h.i)
                    \o " too small to convert to `unsigned short'"))
         ELSE Returned(Native("unsigned short", h.i % 65536))
    ELSE Raised(ExcH(id, "TypeError",
           "no implicit conversion of " \o h.k \o " into Integer"))

\* FromValue<short>::convert (RCX_DEFINE_CONV)
FromValue_short(h, ei, id) == Protected(protect(rb_num2short(h, id), ei))

\* FromValue<unsigned short>::convert (RCX_DEFINE_CONV)
FromValue_unsigned_short(h, ei, id) ==
  Protected(protect(rb_num2ushort(h, id), ei))

\* convert::from_Value<T>(Value)
from_Value(T, h, ei, id) ==
  CASE T = "Value"       -> ConvOk(h, ei)
    [] T = "bool"        -> FromValue_bool(h, ei)
    [] T = "unsigned char" -> FromValue_unsigned_char(h, ei, id)
    [] T = "short"       -> FromValue_short(h, ei, id)
    [] T = "unsigned short" -> FromValue_unsigned_short(h, ei, id)
    [] T = "int"         -> FromValue_int(h, ei, id)
    [] T = "signed char" -> FromValue_signed_char(h, ei, id)
    [] T = "String"      -> FromValue_String(h, ei, id)
    [] T = "string_view" -> FromValue_string_view(h, ei, id)
    [] T = "Base&"       -> FromValue_WrappedStruct(h, ei, id, FALSE)
    [] T = "Base const&" -> FromValue_WrappedStruct(h, ei, id, TRUE)

\* convert::into_Value<T>(T): a Value converts to itself
into_Value(v) ==
  CASE v.k = "int"         -> IntH(v.i)
    [] v.k = "signed char" -> IntH(v.i)
    [] v.k \in {"unsigned char", "short", "unsigned short"} -> IntH(v.i)
    [] v.k = "bool"        -> IF v.i # 0 THEN Qtrue ELSE Qfalse
    [] OTHER               -> v

---------------------------------------------------------------------------
(* Argument specifications (namespace arg).  A parsed result is a value,   *)
(* an optional or a sequence; all have the same record shape.              *)

PVal(v) == [tag |-> "val", v |-> v, a |-> <<>>]

PAbsent == [tag |-> "absent", v |-> Qnil, a |-> <<>>]

PPresent(v) == [tag |-> "present", v |-> v, a |-> <<>>]

PSeq(a) == [tag |-> "seq", v |-> Qnil, a |-> a]

\* a result slot of the tuple that no parse step has filled
PUnset == [tag |-> "unset", v |-> Qnil, a |-> <<>>]

Self(T) == [spec |-> "Self", T |-> T, name |-> ""]

Arg(T, name) == [spec |-> "Arg", T |-> T, name |-> name]

ArgOpt(T, name) == [spec |-> "ArgOpt", T |-> T, name |-> name]

ArgSplat(T) == [spec |-> "ArgSplat", T |-> T, name |-> ""]

\* std::ranges::drop_view(args, 1)
drop_view_1(args) == Tail(args)

\* the outcome of one spec's parse: c is the outcome of its last conversion
Parsed(c, val, args) ==
  [st |-> c.st, val |-> val, args |-> args, exn |-> c.exn, sig |-> c.sig,
   errinfo |-> c.errinfo, site |-> c.site]

\* a conversion's outcome as the outcome of a parse that yields its value
\* and rebinds the slice to rest
Converted(c, args, rest) ==
  IF c.st # "ok" THEN Parsed(c, PUnset, args)
  ELSE Parsed(c, PVal(c.val), rest)

\* the same for a parse that yields a present optional
ConvertedOpt(c, args, rest) ==
  IF c.st # "ok" THEN Parsed(c, PUnset, args)
  ELSE Parsed(c, PPresent(c.val), rest)

\* arg::Self<T>::parse
Self_parse(T, self, args, ei, id) ==
  Converted(from_Value(T, self, ei, id), args, args)

\* an Arg::parse that takes a slice of more than one element for an error
Arg_parse_exact(T, name, self, args, ei, id) ==
  IF Len(args) # 1
    THEN Parsed(ConvLongjmp(rb_raise("ArgumentError",
                  "wrong number of arguments", id),
                  ei, "Arg::parse: rb_raise"), PUnset, args)
    ELSE Converted(from_Value(T, Head(args), ei, id), args, drop_view_1(args))

\* arg::Arg<T, name>::parse
Arg_parse(T, name, self, args, ei, id) ==
  IF args = <<>>
    THEN Parsed(ConvLongjmp(rb_raise("ArgumentError",
                  "Missing required argument (" \o name \o ")", id),
                  ei, "Arg::parse: rb_raise"), PUnset, args)
    ELSE Converted(from_Value(T, Head(args), ei, id), args, drop_view_1(args))

\* arg::ArgOpt<T, name>::parse
ArgOpt_parse(T, name, self, args, ei, id) ==
  IF args = <<>>
    THEN Parsed(ConvOk(Qnil, ei), PAbsent, args)
    ELSE ConvertedOpt(from_Value(T, Head(args), ei, id), args,
                      drop_view_1(args))

\* the while loop of arg::ArgSplat<T>::parse: values is the vector filled
\* so far; the loop ends when the slice is empty or a conversion fails
RECURSIVE ArgSplat_loop(_, _, _, _, _)
RECURSIVE ArgSplat_push(_, _, _, _, _)
ArgSplat_loop(T, values, args, ei, id) ==
  IF args = <<>>
    THEN [c |-> ConvOk(Qnil, ei), values |-> values, args |-> args]
    ELSE ArgSplat_push(T, values, args, from_Value(T, Head(args), ei, id), id)

\* one round of the loop: c is the conversion of the front element
ArgSplat_push(T, values, args, c, id) ==
  IF c.st # "ok"
    THEN [c |-> c, values |-> values, args |-> args]
    ELSE ArgSplat_loop(T, Append(values, c.val), drop_view_1(args),
                       c.errinfo, id)

\* the return statement of arg::ArgSplat<T>::parse: l is the state the loop
\* ended in; args is returned
ArgSplat_return(l) ==
  IF l.c.st # "ok" THEN Parsed(l.c, PUnset, l.args)
  ELSE Parsed(l.c, PSeq(l.args), l.args)

\* arg::ArgSplat<T>::parse
ArgSplat_parse(T, self, args, ei, id) ==
  ArgSplat_return(ArgSplat_loop(T, <<>>, args, ei, id))

\* ArgSpec::parse(ruby, self, args) for one spec of the list
ParseSpec(sp, self, args, ei, id) ==
  CASE sp.spec = "Self"     -> Self_parse(sp.T, self, args, ei, id)
    [] sp.spec = "Arg"      -> Arg_parse(sp.T, sp.name, self, args, ei, id)
    [] sp.spec = "ArgOpt"   -> ArgOpt_parse(sp.T, sp.name, self, args, ei, id)
    [] sp.spec = "ArgSplat" -> ArgSplat_parse(sp.T, self, args, ei, id)

\* the order in which a function call may evaluate its arguments: last first
NextSpec_right_to_left(done, n) == n - done

\* Parser::parse: the braced initializer list of the tuple evaluates the
\* ArgSpec::parse calls from left to right; done specs have been parsed
NextSpec(done, n) == done + 1

---------------------------------------------------------------------------
(* The methods registered through method_callback<ArgSpec...>::alloc: the  *)
(* spec list and the closure.  A closure returns a native value, throws,   *)
(* or makes one outbound call (Value::send) and goes on from its result.   *)

Methods ==
  [add |->
     [specs |-> <<Self("int"), Arg("int", "n")>>, body |-> "add"],
   args_splat |->
     [specs |-> <<Self("Value"), Arg("String", ""), ArgSplat("Value")>>,
      body |-> "const_1"],
   req_opt_splat |->
     [specs |-> <<Self("Value"), Arg("int", "a"), ArgOpt("String", "b"),
                  ArgSplat("int")>>,
      body |-> "void"],
   set_string |->
     [specs |-> <<Self("Base&"), Arg("string_view", "")>>, body |-> "void"],
   take_schar |->
     [specs |-> <<Self("Value"), Arg("signed char", "c")>>, body |-> "arg1"],
   callback |->
     [specs |-> <<Self("Base const&"), Arg("Value", "callable")>>,
      body |-> "send_void"],
   foo |->
     [specs |-> <<Self("String")>>, body |-> "send"],
   test_io |->
     [specs |-> <<Self("Value")>>, body |-> "assert_raise"],
   cxx_exception |->
     [specs |-> <<Self("Base const&")>>, body |-> "throw_out_of_range"],
   cxx_exception_unknown |->
     [specs |-> <<Self("Base const&")>>, body |-> "throw_42"]]

\* the methods whose closures only compute on their parsed arguments
ParseMethods ==
  {"add", "args_splat", "req_opt_splat", "set_string", "take_schar"}

\* the methods whose closures call out or throw
CallMethods ==
  {"callback", "foo", "test_io", "cxx_exception", "cxx_exception_unknown"}

\* what a closure does first when it is invoked with the parsed tuple
ClosureBody(body, results) ==
  CASE body = "add" ->
         [act |-> "return", val |-> NInt(results[1].v.i + results[2].v.i),
          exn |-> NoExn]
    [] body = "const_1" -> [act |-> "return", val |-> NInt(1), exn |-> NoExn]
    [] body = "void" -> [act |-> "return", val |-> Qnil, exn |-> NoExn]
    [] body = "arg1" -> [act |-> "return", val |-> results[2].v, exn |-> NoExn]
    [] body \in {"send_void", "send", "assert_raise"} ->
         [act |-> "send", val |-> Qnil, exn |-> NoExn]
    [] body = "throw_out_of_range" ->
         [act |-> "throw", val |-> Qnil,
          exn |-> StdException("St12out_of_range", "pui")]
    [] body = "throw_42" ->
         [act |-> "throw", val |-> Qnil, exn |-> OtherException("i")]

\* what a closure does when its outbound call has returned val or thrown exn
ClosureResume(body, val, exn, id) ==
  IF exn.kind = "none"
    THEN CASE body = "send_void" ->
                [act |-> "return", val |-> Qnil, exn |-> NoExn]
           [] body = "send" ->
                [act |-> "return", val |-> val, exn |-> NoExn]
           [] body = "assert_raise" ->
                [act |-> "throw", val |-> Qnil,
                 exn |-> RubyError_format("ExpectationNotMetError",
                                          "Expected to raise", id)]
    ELSE IF body = "assert_raise" /\ exn.kind = "RubyError"
      THEN [act |-> "return", val |-> Qtrue, exn |-> NoExn]
      ELSE [act |-> "throw", val |-> Qnil, exn |-> exn]

---------------------------------------------------------------------------
(* Trampoline invocations.                                                 *)

NoFrame ==
  [m |-> "", self |-> Qnil, args |-> <<>>, argv |-> <<>>, done |-> 0,
   results |-> <<>>, order |-> <<>>, calls |-> 0, pc |-> "none",
   exn |-> NoExn, val |-> Qnil]

\* the stub of alloc_callback entered with (argc, argv, self)
NewFrame(m, argv, self) ==
  [NoFrame EXCEPT !.m = m, !.self = self, !.args = argv, !.argv = argv,
                  !.results = [j \in 1..Len(Methods[m].specs) |-> PUnset],
                  !.pc = "parse"]

Top == stack[Len(stack)]

\* the stack with its top frame replaced
WithTop(f) == [stack EXCEPT ![Len(stack)] = f]

NoOutcome == [kind |-> "none", state |-> 0, val |-> Qnil]

NoFlight ==
  [src |-> "none", state |-> 0, val |-> Qnil, exn |-> NoExn, idx |-> 0,
   depth |-> 0]

Running == outcome.kind = "none"

\* a frame whose outbound call ended with sig: detail::protect returns the
\* result to the closure or throws into it
AfterProtect(f, sig, ei) ==
  LET r == protect(sig, ei)
  IN  IF r.exn.kind = "abort"
        THEN [frame |-> [f EXCEPT !.pc = "aborted"], errinfo |-> r.errinfo,
              aborted |-> TRUE]
        ELSE [frame |-> [f EXCEPT !.pc = "resumed", !.val = r.result,
                                  !.exn = r.exn],
              errinfo |-> r.errinfo, aborted |-> FALSE]

\* the outcome, which is the end of the process when it has been aborted
OutcomeOrAbort(aborted) ==
  IF aborted THEN [NoOutcome EXCEPT !.kind = "abort"] ELSE outcome

\* the invocation on top of the stack ends by delivering sig to the managed
\* code that called it: the outermost caller, or the runtime function that
\* the enclosing closure called through detail::protect
Deliver(sig, f) ==
  /\ finished' = [frame |-> f, sig |-> sig,
                  inner |-> IF Len(stack) > finished.inner.depth
                              THEN [depth |-> Len(stack), sig |-> sig]
                              ELSE finished.inner]
  /\ IF Len(stack) = 1
       THEN /\ stack' = <<>>
            /\ errinfo' = IF sig.state = RUBY_TAG_RAISE THEN sig.val ELSE errinfo
            /\ outcome' =
                 [kind |-> CASE sig.state = RUBY_TAG_NONE -> "return"
                             [] sig.state = RUBY_TAG_RAISE -> "raise"
                             [] OTHER -> "jump",
                  state |-> sig.state, val |-> sig.val]
       ELSE LET parent == stack[Len(stack) - 1]
                a == AfterProtect(parent, sig, errinfo)
            IN  /\ stack' = Append(SubSeq(stack, 1, Len(stack) - 2), a.frame)
                /\ errinfo' = a.errinfo
                /\ outcome' = OutcomeOrAbort(a.aborted)

---------------------------------------------------------------------------
(* The inbound wrapper: detail::cxx_protect and detail::make_ruby_exception *)

\* a nullable pointer
Null == [null |-> TRUE, v |-> ""]

Ptr(v) == [null |-> FALSE, v |-> v]

\* abi::__cxa_demangle on the names the model throws
Demangled(tname) ==
  CASE tname = "St12out_of_range"  -> "std::out_of_range"
    [] tname = "St13runtime_error" -> "std::runtime_error"
    [] tname = "i"                 -> "int"
    [] OTHER                       -> tname

\* detail::demangle_type_info(ti): cxa is what __cxa_demangle answers, a
\* null pointer when it fails; a std::string built from a null pointer is
\* undefined behaviour
demangle_type_info(tname, have_abi_cxa_demangle, cxa) ==
  IF have_abi_cxa_demangle
    THEN IF cxa.null THEN [st |-> "ub", name |-> ""]
                     ELSE [st |-> "ok", name |-> cxa.v]
    ELSE [st |-> "ok", name |-> ""]

\* what the environment decides while the replacement error is built:
\* whether __cxa_demangle succeeds, what the runtime answers to
\* String::copy_from and to new_instance, and what undefined behaviour does
Envs ==
  [cxa_ok : BOOLEAN, copy_from : {RUBY_TAG_NONE, RUBY_TAG_RAISE},
   new_instance : {RUBY_TAG_NONE, RUBY_TAG_RAISE},
   ub : {"terminate", "crash"}]

NoMemoryError(id) == ExcH(id, "NoMemoryError", "failed to allocate memory")

\* detail::make_ruby_exception(exc, ti): exc is the what() of the caught
\* std::exception or null, ti the name of the thrown type or null
make_ruby_exception(exc, ti, bld, env, ei, id) ==
  LET d == IF ti.null THEN [st |-> "ok", name |-> ""]
           ELSE demangle_type_info(ti.v, bld.demangle,
                  IF env.cxa_ok THEN Ptr(Demangled(ti.v)) ELSE Null)
      msg == IF exc.null THEN "" ELSE exc.v
      text == (IF d.name = "" THEN "unknown" ELSE d.name) \o ": " \o msg
      str == protect(IF env.copy_from = RUBY_TAG_NONE
                       THEN Returned(StrH(text))
                       ELSE Raised(NoMemoryError(id)), ei)
      obj == protect(IF env.new_instance = RUBY_TAG_NONE
                       THEN Returned(ExcH(id, "RuntimeError", str.result.s))
                       ELSE Raised(NoMemoryError(id)), str.errinfo)
  IN  IF d.st = "ub" THEN [st |-> "ub", val |-> Qnil, exn |-> NoExn]
      ELSE IF str.exn.kind = "abort"
        THEN [st |-> "abort", val |-> Qnil, exn |-> NoExn]
      ELSE IF str.exn.kind # "none"
        THEN [st |-> "throw", val |-> Qnil, exn |-> str.exn]
      ELSE IF obj.exn.kind = "abort"
        THEN [st |-> "abort", val |-> Qnil, exn |-> NoExn]
      ELSE IF obj.exn.kind # "none"
        THEN [st |-> "throw", val |-> Qnil, exn |-> obj.exn]
      ELSE [st |-> "ok", val |-> obj.result, exn |-> NoExn]

\* how the noexcept function cxx_protect ends when the replacement error
\* was asked for: a raise of it, or the end of the process when building it
\* threw (std::terminate), aborted or ran into undefined behaviour
RaiseReplacement(r, env) ==
  CASE r.st = "ok"    -> [act |-> "raise", sig |-> Raised(r.val)]
    [] r.st = "throw" -> [act |-> "terminate", sig |-> Returned(Qnil)]
    [] r.st = "abort" -> [act |-> "abort", sig |-> Returned(Qnil)]
    [] r.st = "ub"    -> [act |-> env.ub, sig |-> Returned(Qnil)]

\* a cxx_protect whose handler for std::exception also takes RubyError
cxx_protect_rewrap(exn, bld, env, ei, id) ==
  CASE exn.kind = "Jump" ->
         [act |-> "jump", sig |-> Sig(exn.state, Qnil)]
    [] exn.kind \in {"RubyError", "std"} ->
         RaiseReplacement(
           make_ruby_exception(Ptr(exn.what), Ptr(exn.tname), bld, env, ei, id),
           env)
    [] exn.kind = "other" ->
         RaiseReplacement(
           make_ruby_exception(Null,
             IF bld.current_exception_type THEN Ptr(exn.tname) ELSE Null,
             bld, env, ei, id),
           env)

\* the catch clauses of detail::cxx_protect, for the exception exn that left
\* the functor
cxx_protect(exn, bld, env, ei, id) ==
  CASE exn.kind = "Jump" ->
         [act |-> "jump", sig |-> Sig(exn.state, Qnil)]
    [] exn.kind = "RubyError" ->
         [act |-> "raise", sig |-> Raised(exn.val)]
    [] exn.kind = "std" ->
         RaiseReplacement(
           make_ruby_exception(Ptr(exn.what), Ptr(exn.tname), bld, env, ei, id),
           env)
    [] exn.kind = "other" ->
         RaiseReplacement(
           make_ruby_exception(Null,
             IF bld.current_exception_type THEN Ptr(exn.tname) ELSE Null,
             bld, env, ei, id),
           env)

---------------------------------------------------------------------------
(* Inputs.                                                                 *)

ArgPool == {IntH(3), StrH("foo"), StrH("bar"), StrH("baz")}

\* the argument vectors of at most n entries
Vectors(n) == UNION {[1..k -> ArgPool] : k \in 0..n}

\* the call methods take at most one argument
CallVectors == {<<>>, <<StrH("foo")>>}

\* receivers: an Integer, a String, a Base object, one that is allocated but
\* not initialized, and a frozen one
Receivers ==
  {IntH(5), StrH("test"), ShellH(1, FALSE), ShellH(0, FALSE), ShellH(1, TRUE)}

\* the receivers of the call methods, which take self as a constant
CallReceivers == {StrH("test"), ShellH(1, FALSE), ShellH(0, FALSE)}

\* what the runtime may return from an outbound call
ReturnPool == {Qnil, IntH(3)}

\* a method that forwards the result of its outbound call, and one that
\* returns its argument
NestMethods == {"foo", "take_schar"}

NestVectors == {<<>>, <<IntH(3)>>}

NestReceivers == {StrH("test")}

\* the builds: whether abi::__cxa_demangle and
\* abi::__cxa_current_exception_type are available, and whether the standard
\* library checks its preconditions
Builds ==
  [demangle : BOOLEAN, current_exception_type : BOOLEAN, assertions : BOOLEAN]

---------------------------------------------------------------------------
(* Actions.                                                                *)

\* the collector is idle
NoGc == [phase |-> "idle", marked |-> {}, pending |-> {}, forward |-> <<>>]

\* no Storage is alive at an address
NoStorage == [value |-> Qnil, refs |-> 0]

\* no pinning wrapper was made, and no address is registered
NoPins == [storage |-> [a \in 1..MaxPins |-> NoStorage], roots |-> <<>>]

\* the parent that bind_data_type passes to bind: nullptr for a superclass
\* that is not native-bound
ParentOf(T) == IF SuperOf(T) = "Value" THEN "" ELSE SuperOf(T)

\* no library call has been made
NoConv ==
  [op |-> "none", T |-> "", input |-> Qnil, out |-> ConvOk(Qnil, Qnil),
   steps |-> <<>>]

\* the state in which no trampoline has been invoked and no library call
\* made
InitCalls ==
  /\ stack = <<>>
  /\ errinfo = Qnil
  /\ nextId = 1
  /\ outcome = NoOutcome
  /\ finished = [frame |-> NoFrame, sig |-> Returned(Qnil),
                 inner |-> [depth |-> 0, sig |-> Returned(Qnil)]]
  /\ inflight = NoFlight
  /\ unprotected = {}
  /\ conv = NoConv
  /\ objects = <<>>
  /\ payloads = <<>>
  /\ gc = NoGc
  /\ pins = NoPins
  /\ freed = <<>>

\* the state after Init_test has defined and bound the classes
Init ==
  /\ build \in Builds
  /\ InitCalls
  /\ data_type_ = [T \in Types |-> DataTypeOf(ClassH(T), ParentOf(T))]
  /\ alloc_func = [c \in Types |-> c]

\* the builds that differ in the library's assertions only
DataBuilds == {b \in Builds : b.demangle /\ b.current_exception_type}

\* the state before any class is bound
InitData ==
  /\ build \in DataBuilds
  /\ InitCalls
  /\ data_type_ = [T \in Types |-> NoDataType]
  /\ alloc_func = [c \in Types |-> ""]

\* the state after Init_test, in the builds that differ in the assertions
InitBound == Init /\ build \in DataBuilds

\* the runtime calls the trampoline of method m: from the outermost managed
\* caller, or from inside an outbound call of the closure on top, in a chain
\* of at most d invocations
InvokeAt(ms, vs, rs, d) ==
  /\ Running
  /\ \/ stack = <<>> /\ finished.frame.pc = "none"
     \/ stack # <<>> /\ Top.pc = "outbound" /\ Len(stack) < d
  /\ \E m \in ms, argv \in vs, self \in rs :
       stack' = Append(stack, NewFrame(m, argv, self))
  /\ UNCHANGED <<build, errinfo, nextId, outcome, finished, inflight,
                 unprotected>>
  /\ UNCHANGED lib

Invoke(ms, vs, rs) == InvokeAt(ms, vs, rs, MaxDepth)

\* a chain of calls of the forwarding method foo that ends in take_schar
InvokeNested == InvokeAt(NestMethods, NestVectors, NestReceivers, NestDepth)

\* the parse of spec i of frame f ended as r; g is f with the step noted
ParseStepEnd(g, n, i, r, managed) ==
  /\ nextId' = IF managed THEN nextId + 1 ELSE nextId
  /\ inflight' =
       IF r.st \in {"ok", "abort", "terminate"} THEN inflight
       ELSE [src |-> "parse", idx |-> i, exn |-> r.exn, depth |-> Len(stack),
             state |-> IF managed THEN RUBY_TAG_RAISE ELSE RUBY_TAG_NONE,
             val |-> IF r.st = "longjmp" THEN r.sig.val ELSE r.exn.val]
  /\ unprotected' =
       IF r.st = "longjmp" THEN unprotected \cup {r.site} ELSE unprotected
  /\ CASE r.st = "ok" ->
            /\ stack' = WithTop(
                 [g EXCEPT !.results[i] = r.val, !.args = r.args,
                           !.done = g.done + 1,
                           !.pc = IF g.done + 1 = n THEN "call" ELSE "parse"])
            /\ errinfo' = r.errinfo
            /\ UNCHANGED <<outcome, finished>>
       [] r.st = "throw" ->
            /\ stack' = WithTop([g EXCEPT !.exn = r.exn, !.pc = "caught"])
            /\ errinfo' = r.errinfo
            /\ UNCHANGED <<outcome, finished>>
       [] r.st = "longjmp" ->
            Deliver(r.sig, [g EXCEPT !.pc = "unwound"])
       [] r.st \in {"abort", "terminate"} ->
            /\ stack' = WithTop([g EXCEPT !.pc = "aborted"])
            /\ finished' = [finished EXCEPT
                              !.frame = [g EXCEPT !.pc = "aborted"],
                              !.sig = Returned(Qnil)]
            /\ outcome' = [NoOutcome EXCEPT !.kind = r.st]
            /\ errinfo' = r.errinfo

\* a parse outcome that carries a managed exception object
Managed(r) == r.st = "longjmp" \/ r.exn.kind = "RubyError"

ParseStepResult(g, n, i, r) == ParseStepEnd(g, n, i, r, Managed(r))

\* frame f, with n specs, parses its spec i
ParseStepOf(f, n, i) ==
  ParseStepResult([f EXCEPT !.order = Append(f.order, i)], n, i,
    ParseSpec(Methods[f.m].specs[i], f.self, f.args, errinfo, nextId))

\* Parser::parse evaluates the next ArgSpec::parse of the initializer list
ParseStep ==
  /\ Running /\ stack # <<>> /\ Top.pc = "parse"
  /\ ParseStepOf(Top, Len(Methods[Top.m].specs),
                 NextSpec(Top.done, Len(Methods[Top.m].specs)))
  /\ UNCHANGED build
  /\ UNCHANGED lib

\* a lambda that evaluates the operand of its decltype as well
ParseCalls_decltype(body) == 2

\* the lambda of method_callback::alloc: how many of its parser.parse
\* expressions are evaluated for a closure body.  The operand of decltype is
\* not evaluated, and each branch of the if constexpr, the one for void and
\* the one for a value, holds one call
ParseCalls(body) == 1

\* std::apply(func, tuple): the closure is invoked with the parsed tuple
CallClosure ==
  /\ Running /\ stack # <<>> /\ Top.pc = "call"
  /\ LET f == Top
         b == ClosureBody(Methods[f.m].body, f.results)
         g == [f EXCEPT !.calls = f.calls + ParseCalls(Methods[f.m].body)]
     IN  /\ stack' = WithTop(
              CASE b.act = "return" -> [g EXCEPT !.pc = "returning", !.val = b.val]
                [] b.act = "send"   -> [g EXCEPT !.pc = "outbound"]
                [] b.act = "throw"  -> [g EXCEPT !.pc = "caught", !.exn = b.exn])
         /\ inflight' =
              IF b.act = "throw"
                THEN [NoFlight EXCEPT !.src = "closure", !.exn = b.exn,
                                      !.depth = Len(stack)]
                ELSE inflight
  /\ UNCHANGED <<build, errinfo, nextId, outcome, finished, unprotected>>
  /\ UNCHANGED lib

\* the runtime function called through detail::protect returns
RuntimeReturn ==
  /\ Running /\ stack # <<>> /\ Top.pc = "outbound"
  /\ \E v \in ReturnPool :
       LET a == AfterProtect(Top, Returned(v), errinfo)
       IN  /\ stack' = WithTop(a.frame)
           /\ errinfo' = a.errinfo
           /\ outcome' = OutcomeOrAbort(a.aborted)
  /\ UNCHANGED <<build, nextId, finished, inflight, unprotected>>
  /\ UNCHANGED lib

\* the runtime raises a new exception object inside the outbound call
RuntimeRaise ==
  /\ Running /\ stack # <<>> /\ Top.pc = "outbound"
  /\ LET e == ExcH(nextId, "StandardError", "raised")
         a == AfterProtect(Top, Raised(e), errinfo)
     IN  /\ stack' = WithTop(a.frame)
         /\ errinfo' = a.errinfo
         /\ inflight' = [NoFlight EXCEPT !.src = "runtime",
                                         !.state = RUBY_TAG_RAISE, !.val = e,
                                         !.depth = Len(stack)]
  /\ nextId' = nextId + 1
  /\ UNCHANGED <<build, outcome, finished, unprotected>>
  /\ UNCHANGED lib

\* the runtime makes a non-local transfer that is not a raise (break, throw,
\* ...) inside the outbound call
RuntimeJump ==
  /\ Running /\ stack # <<>> /\ Top.pc = "outbound"
  /\ \E t \in RubyTags \ {RUBY_TAG_RAISE} :
       LET a == AfterProtect(Top, Sig(t, Qnil), errinfo)
       IN  /\ stack' = WithTop(a.frame)
           /\ errinfo' = a.errinfo
           /\ inflight' = [NoFlight EXCEPT !.src = "runtime", !.state = t,
                                           !.depth = Len(stack)]
  /\ UNCHANGED <<build, nextId, outcome, finished, unprotected>>
  /\ UNCHANGED lib

\* the closure goes on after its outbound call returned or threw
ResumeClosure ==
  /\ Running /\ stack # <<>> /\ Top.pc = "resumed"
  /\ LET f == Top
         b == ClosureResume(Methods[f.m].body, f.val, f.exn, nextId)
         aborted == b.act = "throw" /\ b.exn.kind = "abort"
         fresh == b.act = "throw" /\ f.exn.kind = "none" /\ ~aborted
     IN  /\ stack' = WithTop(
              IF b.act = "return"
                THEN [f EXCEPT !.pc = "returning", !.val = b.val, !.exn = NoExn]
              ELSE IF aborted THEN [f EXCEPT !.pc = "aborted"]
              ELSE [f EXCEPT !.pc = "caught", !.exn = b.exn])
         /\ outcome' = OutcomeOrAbort(aborted)
         /\ nextId' = IF fresh THEN nextId + 1 ELSE nextId
         /\ inflight' =
              IF fresh
                THEN [NoFlight EXCEPT !.src = "closure", !.exn = b.exn,
                                      !.state = RUBY_TAG_RAISE,
                                      !.val = b.exn.val, !.depth = Len(stack)]
              ELSE IF b.act = "return" THEN NoFlight
              ELSE inflight
  /\ UNCHANGED <<build, errinfo, finished, unprotected>>
  /\ UNCHANGED lib

\* the stub converts the closure's result with into_Value and returns it
Return ==
  /\ Running /\ stack # <<>> /\ Top.pc = "returning"
  /\ Deliver(Returned(into_Value(Top.val)), Top)
  /\ UNCHANGED <<build, nextId, inflight, unprotected>>
  /\ UNCHANGED lib

\* an exception left the functor: the catch clauses of cxx_protect
CxxProtect ==
  /\ Running /\ stack # <<>> /\ Top.pc = "caught"
  /\ \E env \in Envs :
       LET c == cxx_protect(Top.exn, build, env, errinfo, nextId)
       IN  /\ IF c.act \in {"terminate", "crash", "abort"}
                THEN /\ outcome' = [NoOutcome EXCEPT !.kind = c.act]
                     /\ finished' = [finished EXCEPT !.frame = Top,
                                                     !.sig = c.sig]
                     /\ UNCHANGED <<stack, errinfo>>
                ELSE Deliver(c.sig, Top)
           /\ nextId' = IF Top.exn.kind \in {"std", "other"}
                          THEN nextId + 1 ELSE nextId
  /\ UNCHANGED <<build, inflight, unprotected>>
  /\ UNCHANGED lib

---------------------------------------------------------------------------
(* Specifications.                                                         *)

\* calls of the methods that parse arguments and compute
NextParse ==
  \/ Invoke(ParseMethods, Vectors(MaxArgs), Receivers)
  \/ ParseStep
  \/ CallClosure
  \/ Return
  \/ CxxProtect

SpecParse == Init /\ [][NextParse]_vars

\* calls of the methods that throw or call out, nested calls included
Next ==
  \/ Invoke(CallMethods, CallVectors, CallReceivers)
  \/ ParseStep
  \/ CallClosure
  \/ RuntimeReturn
  \/ RuntimeRaise
  \/ RuntimeJump
  \/ ResumeClosure
  \/ Return
  \/ CxxProtect

Spec == Init /\ [][Next]_vars

\* chains of up to NestDepth invocations, each closure calling the next
\* trampoline through Value::send
NextNest ==
  \/ InvokeNested
  \/ ParseStep
  \/ CallClosure
  \/ RuntimeReturn
  \/ RuntimeRaise
  \/ RuntimeJump
  \/ ResumeClosure
  \/ Return
  \/ CxxProtect

SpecNest == Init /\ [][NextNest]_vars

---------------------------------------------------------------------------
(* Conversions applied on their own: from_Value and into_Value called by   *)
(* native code outside a parse, as Test::test_primitive and                *)
(* Test::test_optional do.                                                 *)

\* the registered scalar types whose limits are at most 32 bits wide
ScalarTypes ==
  {"bool", "signed char", "unsigned char", "short", "unsigned short", "int"}

\* the values of type T near its limits and near zero
ScalarValues(T) ==
  {v \in {TypeMin(T), TypeMin(T) + 1, -1, 0, 1, TypeMax(T) - 1, TypeMax(T)} :
     TypeMin(T) <= v /\ v <= TypeMax(T)}

\* Integers of the runtime that fit an int, inside and outside 8 bits
IntInputs ==
  {INT_MIN, -32769, -200, -129, -128, -1, 0, 1, 127, 128, 200, 255, 256,
   300, 65536, INT_MAX}

\* convert::IntoValue<std::optional<T>>::convert: garbage is what a read of
\* the storage of a disengaged optional yields where the library does not
\* check operator*
IntoValue_optional(o, garbage, ei) ==
  IF o.tag = "present" THEN ConvOk(Qnil, ei)
  ELSE IF build.assertions THEN ConvAbort(ei)
  ELSE ConvOk(into_Value(garbage), ei)

\* the std::optional<T> that a conversion to T converts to implicitly
OptionalOf(r) ==
  IF r.st = "ok" THEN ConvOk(PPresent(r.val), r.errinfo) ELSE r

\* a conversion that loses the failure of from_Value<T>
FromValue_optional_absent_on_failure(T, h, ei, id) ==
  IF h.k = "NilClass" \/ from_Value(T, h, ei, id).st # "ok"
    THEN ConvOk(PAbsent, ei)
    ELSE OptionalOf(from_Value(T, h, ei, id))

\* convert::FromValue<std::optional<T>>::convert
FromValue_optional(T, h, ei, id) ==
  IF h.k = "NilClass" THEN ConvOk(PAbsent, ei)
  ELSE OptionalOf(from_Value(T, h, ei, id))

\* an Array of the runtime holding elems
ArrH(elems) ==
  [k |-> "Array", i |-> 0, s |-> "", m |-> "", fz |-> FALSE, a |-> elems]

\* convert::FromValue<Array>::convert
FromValue_Array(h, ei, id) ==
  IF h.k # "Array"
    THEN ConvLongjmp(
           rb_raise("TypeError", "Expected an Array but got a " \o h.k, id),
           ei, "FromValue<Array>: rb_raise")
    ELSE ConvOk(h, ei)

\* Array::operator[](i), for the element at position i counted from 1
Array_index(arr, i, ei) == Protected(protect(Returned(arr.a[i]), ei))

\* Array::at<T>(i), from the element on: e is the outcome of operator[]
Array_at_element(T, e, id) ==
  IF e.st # "ok" THEN e ELSE from_Value(T, e.val, e.errinfo, id)

\* Array::at<T>(i)
Array_at(T, arr, i, ei, id) == Array_at_element(T, Array_index(arr, i, ei), id)

\* the arguments of std::make_tuple(array.at<T>(I)...), which are evaluated
\* in an order the language leaves open: order lists the positions, k of
\* them are done, acc holds the values converted so far
RECURSIVE make_tuple_args(_, _, _, _, _, _, _)
RECURSIVE make_tuple_arg(_, _, _, _, _, _, _)
make_tuple_args(Ts, arr, order, k, acc, ei, id) ==
  IF k = Len(order)
    THEN [out |-> ConvOk(PSeq(acc), ei), steps |-> order]
    ELSE make_tuple_arg(Ts, arr, order, k + 1, acc,
           Array_at(Ts[order[k + 1]], arr, order[k + 1], ei, id), id)

\* one argument: e is the outcome of array.at<T>(I) for position order[k]
make_tuple_arg(Ts, arr, order, k, acc, e, id) ==
  IF e.st # "ok"
    THEN [out |-> e, steps |-> SubSeq(order, 1, k)]
    ELSE make_tuple_args(Ts, arr, order, k, [acc EXCEPT ![order[k]] = e.val],
                         e.errinfo, id)

\* FromValue<std::tuple<T...>>::convert, from the size check on: a is the
\* outcome of from_Value<Array>
tuple_checked(Ts, a, order, id) ==
  IF a.st # "ok" THEN [out |-> a, steps |-> <<>>]
  ELSE IF Len(a.val.a) # Len(Ts)
    THEN [out |-> ConvThrow(RubyError_format("ArgumentError",
                    "Array of length " \o ToString(Len(Ts)) \o " is expected",
                    id), a.errinfo),
          steps |-> <<>>]
  ELSE make_tuple_args(Ts, a.val, order, 0, [i \in 1..Len(Ts) |-> Qnil],
                       a.errinfo, id)

\* convert::FromValue<std::tuple<T...>>::convert
FromValue_tuple(Ts, h, order, ei, id) ==
  tuple_checked(Ts, FromValue_Array(h, ei, id), order, id)

\* the orders in which n arguments may be evaluated
Orders(n) == {o \in [1..n -> 1..n] : \A i, j \in 1..n : o[i] = o[j] => i = j}

\* the element types of the tuples converted
TupleTypes == {<<"String", "Value">>, <<"int", "String">>}

\* the Handles given to from_Value<std::tuple<T...>>
TupleInputs ==
  {Qnil, StrH("foo"), ArrH(<<>>), ArrH(<<StrH("foo")>>),
   ArrH(<<StrH("foo"), StrH("bar")>>), ArrH(<<IntH(3), StrH("foo")>>),
   ArrH(<<StrH("foo"), IntH(3)>>), ArrH(<<IntH(3), IntH(3)>>),
   ArrH(<<StrH("foo"), StrH("bar"), StrH("baz")>>)}

\* the element types of the optionals of Test::test_optional
OptionalTypes == {"int", "String"}

\* native values of type T
NativeValues(T) ==
  IF T = "int" THEN {NInt(42), NInt(0)} ELSE {StrH("hello"), StrH("")}

\* the Handles given to from_Value<std::optional<T>>
OptionalInputs == {Qnil, Qfalse, IntH(42), StrH("hello"), StrH("foo")}

\* the conversion op of input to or from T ended as out, having converted
\* the elements steps of its input
ApplyConvSteps(op, T, input, out, steps) ==
  /\ conv.op = "none" /\ Running /\ stack = <<>>
  /\ conv' = [op |-> op, T |-> T, input |-> input, out |-> out,
              steps |-> steps]
  /\ errinfo' = out.errinfo
  /\ nextId' = IF out.st \in {"throw", "longjmp"} THEN nextId + 1 ELSE nextId
  /\ unprotected' =
       IF out.st = "longjmp" THEN unprotected \cup {out.site} ELSE unprotected
  /\ outcome' = IF out.st = "terminate"
                  THEN [NoOutcome EXCEPT !.kind = "terminate"]
                  ELSE OutcomeOrAbort(out.st = "abort")
  /\ UNCHANGED <<build, stack, finished, inflight, data_type_, alloc_func,
                 objects, payloads, gc,
                 pins, freed>>

ApplyConv(op, T, input, out) == ApplyConvSteps(op, T, input, out, <<>>)

\* roundtrip(v) of Test::test_primitive: from_Value<T>(into_Value<T>(v))
RoundTrip ==
  \E T \in ScalarTypes : \E v \in ScalarValues(T) :
    ApplyConv("roundtrip", T, Native(T, v),
              from_Value(T, into_Value(Native(T, v)), errinfo, nextId))

\* from_Value<T> of an Integer for an 8-bit T
FromScalar ==
  \E T \in {"signed char", "unsigned char"} : \E v \in IntInputs :
    ApplyConv("from", T, IntH(v), from_Value(T, IntH(v), errinfo, nextId))

\* rcx::into_Value(std::optional<T>) of Test::test_optional
IntoOptional ==
  \E T \in OptionalTypes :
    \E o \in {PAbsent} \cup {PPresent(x) : x \in NativeValues(T)} :
      \E garbage \in NativeValues(T) :
        ApplyConv("into_optional", T, o, IntoValue_optional(o, garbage, errinfo))

\* rcx::from_Value<std::optional<T>>(Value) of Test::test_optional
FromOptional ==
  \E T \in OptionalTypes : \E h \in OptionalInputs :
    ApplyConv("from_optional", T, h, FromValue_optional(T, h, errinfo, nextId))

\* the tuple conversion ended as r
ApplyTuple(Ts, h, r) == ApplyConvSteps("from_tuple", Ts, h, r.out, r.steps)

\* rcx::from_Value<std::tuple<T...>>(Value), as for the parameter of
\* Associated::swap
FromTuple ==
  \E Ts \in TupleTypes : \E h \in TupleInputs : \E order \in Orders(Len(Ts)) :
    ApplyTuple(Ts, h, FromValue_tuple(Ts, h, order, errinfo, nextId))

\* the Strings the accessors are applied to: one that can be modified and
\* a frozen one
StringInputs == {StrH("foo"), [StrH("bar") EXCEPT !.fz = TRUE]}

\* String::data, String::cdata, std::string_view(String) and
\* from_Value<std::string_view> of a String
StringAccess ==
  \E h \in StringInputs :
    \/ ApplyConv("data", "String", h, String_data(h, errinfo, nextId))
    \/ ApplyConv("cdata", "String", h, String_cdata(h, errinfo))
    \/ ApplyConv("view", "String", h, String_view(ConvOk(h, errinfo), nextId))
    \/ ApplyConv("view", "string_view", h,
                 from_Value("string_view", h, errinfo, nextId))

NextConv ==
  \/ StringAccess
  \/ RoundTrip
  \/ FromScalar
  \/ IntoOptional
  \/ FromOptional
  \/ FromTuple

SpecConv == Init /\ [][NextConv]_vars

---------------------------------------------------------------------------
(* detail::protect on its own: native code outside any trampoline calls    *)
(* into the runtime through it, one call after another.                    *)

\* what the runtime does with the call: it returns a value, raises an
\* exception it allocates, or jumps with a tag that is no raise (TAG_THROW)
ProtectSigs ==
  {Returned(IntH(3)), Returned(StrH("foo")),
   Raised(ExcH(nextId, "RuntimeError", "boom")),
   Sig(RUBY_TAG_RAISE + 1, Qnil)}

\* the pending-error slot while managed code handles an exception ($!)
Rescued == ExcH(0, "StandardError", "rescued")

\* a call of detail::protect with a functor of result type T ended as out;
\* sig is what the runtime did
ProtectEnd(T, sig, out) ==
  /\ conv' = [op |-> "protect", T |-> T, input |-> sig.val, out |-> out,
              steps |-> <<sig.state>>]
  /\ errinfo' = out.errinfo
  /\ nextId' = IF sig.state = RUBY_TAG_RAISE THEN nextId + 1 ELSE nextId
  /\ outcome' = OutcomeOrAbort(out.st = "abort")
  /\ UNCHANGED <<build, stack, finished, inflight, unprotected, data_type_,
                 alloc_func, objects, payloads, gc,
                 pins, freed>>

\* detail::protect(functor): the overload for a functor that returns void
\* or the one for a functor that returns a Value
Protect ==
  /\ Running /\ stack = <<>>
  /\ \E sig \in ProtectSigs :
       /\ sig.state = RUBY_TAG_RAISE => nextId <= MaxCalls
       /\ \/ ProtectEnd("void", sig, Protected(protect_void(sig, errinfo)))
          \/ ProtectEnd("Value", sig, Protected(protect(sig, errinfo)))

\* managed code rescues an exception of its own and calls native code while
\* handling it: the pending-error slot holds that exception
Rescue ==
  /\ Running /\ errinfo = Qnil
  /\ errinfo' = Rescued
  /\ UNCHANGED <<build, stack, nextId, outcome, finished, inflight,
                 unprotected, lib>>

NextProtect ==
  \/ Protect
  \/ Rescue

SpecProtect == Init /\ [][NextProtect]_vars

---------------------------------------------------------------------------
(* Native-bound objects (namespace typed_data): binding a native type to   *)
(* a class, the shells the runtime allocates for the class, and the        *)
(* payloads that initialize attaches to them.                              *)

\* a call that threw a std::runtime_error and changed nothing
BindFailed(what, ei) ==
  [out |-> ConvThrow(StdException("St13runtime_error", what), ei),
   data_type_ |-> data_type_, alloc_func |-> alloc_func]

\* a bind that replaces the binding of a type that is bound already
DataTypeStorage_bind_again(T, klass, parent, ei) ==
  [out |-> ConvOk(Qnil, ei),
   data_type_ |-> [data_type_ EXCEPT ![T] = DataTypeOf(klass, parent)],
   alloc_func |-> [alloc_func EXCEPT ![klass.s] = T]]

\* DataTypeStorage<T>::bind(klass, parent)
DataTypeStorage_bind(T, klass, parent, ei) ==
  IF data_type_[T].bound
    THEN BindFailed("This type is already bound to a Ruby Class", ei)
    ELSE [out |-> ConvOk(Qnil, ei),
          data_type_ |-> [data_type_ EXCEPT ![T] = DataTypeOf(klass, parent)],
          alloc_func |-> [alloc_func EXCEPT ![klass.s] = T]]

\* typed_data::bind_data_type for a native-bound superclass type S: g is the
\* outcome of DataType<S>::get()
bind_with_parent(T, klass, S, superclass, g) ==
  IF g.st # "ok"
    THEN [out |-> g, data_type_ |-> data_type_, alloc_func |-> alloc_func]
  ELSE IF data_type_[S].data # superclass
    THEN BindFailed("superclass has mismatching static type", g.errinfo)
  ELSE DataTypeStorage_bind(T, klass, S, g.errinfo)

\* typed_data::bind_data_type(klass, superclass)
bind_data_type(T, klass, S, superclass, ei) ==
  IF S = "Value" THEN DataTypeStorage_bind(T, klass, "", ei)
  ELSE bind_with_parent(T, klass, S, superclass, DataTypeStorage_get(S, ei))

\* the classes of the runtime
Classes == {ClassH(c) : c \in Types}

\* the classes given to define_class<T>: the one Init_test gives and another
BindClasses(T) == {ClassH(T), ClassH("Base")}

\* the library call op on T with input ended as out
Called(op, T, input, out) ==
  /\ conv' = [op |-> op, T |-> T, input |-> input, out |-> out,
              steps |-> <<>>]
  /\ errinfo' = out.errinfo
  /\ nextId' = IF Managed(out) THEN nextId + 1 ELSE nextId
  /\ unprotected' =
       IF out.st = "longjmp" THEN unprotected \cup {out.site} ELSE unprotected
  /\ UNCHANGED <<build, stack, outcome, finished, inflight,
                 pins, freed>>

\* the call of bind_data_type for T and klass ended as r
BindEnd(T, klass, r) ==
  /\ data_type_' = r.data_type_
  /\ alloc_func' = r.alloc_func
  /\ Called("bind", T, klass, r.out)

\* define_class<T>(name, superclass): typed_data::bind_data_type
Bind ==
  /\ \E T \in Types : \E klass \in BindClasses(T), superclass \in BindClasses(T) :
       BindEnd(T, klass,
               bind_data_type(T, klass, SuperOf(T), superclass, errinfo))
  /\ UNCHANGED <<objects, payloads, gc>>

\* DataTypeStorage<T>::get
Get ==
  /\ \E T \in Types : Called("get", T, Qnil, DataTypeStorage_get(T, errinfo))
  /\ UNCHANGED <<data_type_, alloc_func, objects, payloads, gc>>

\* the Handle of shell o as a conversion sees it: its data type, its data
\* pointer and whether it is frozen
HandleOf(o) == Handle(objects[o].T, objects[o].data, "", "", objects[o].fz)

\* the addresses of the runtime's heap
Addrs == 1..(MaxObjects + 1)

\* the addresses no shell is at
FreeAddrs == Addrs \ {objects[o].addr : o \in 1..Len(objects)}

\* the least address no shell is at
FreeAddr == CHOOSE a \in FreeAddrs : \A b \in FreeAddrs : a <= b

\* the runtime allocates an instance of a class: the function that bind gave
\* to rb_define_alloc_func wraps a null data pointer
Allocate(cs) ==
  /\ Len(objects) < MaxObjects /\ gc.phase = "idle"
  /\ \E c \in cs :
       /\ alloc_func[c] # ""
       /\ data_type_[alloc_func[c]].bound
       /\ objects' = Append(objects, [T |-> alloc_func[c], data |-> 0,
                                      fz |-> FALSE, addr |-> FreeAddr])
  /\ UNCHANGED <<build, stack, errinfo, nextId, outcome, finished, inflight,
                 unprotected, conv, data_type_, alloc_func, payloads, gc,
                 pins, freed>>

\* std::optional<Value> value_ of AssociatedValue that holds no value
NoValue == 0

\* new T(args...): AssociatedValue() = default leaves value_ disengaged
new_T(T) == [T |-> T, value_ |-> NoValue]

\* a copy constructor of AssociatedValue that copies value_
AssociatedValue_copy_value(p) == p

\* new T(obj): AssociatedValue(AssociatedValue const &) leaves value_
\* disengaged
AssociatedValue_copy(p) == [p EXCEPT !.value_ = NoValue]

\* AssociatedValue::associate_value(v) on payload p
associate_value(p, v) ==
  IF p.value_ # NoValue
    THEN [out |-> ConvThrow(StdException("St13runtime_error",
                    "Already associcated"), errinfo),
          payload |-> p]
    ELSE [out |-> ConvOk(Qnil, errinfo), payload |-> [p EXCEPT !.value_ = v]]

\* DataTypeStorage<T>::initialize and initialize_copy after new T: data is
\* the payload constructed, value the shell's Handle
attach(T, data, value) ==
  IF TwoWay(T) THEN associate_value(data, value)
  ELSE [out |-> ConvOk(Qnil, errinfo), payload |-> data]

\* the attach of a new payload to shell o ended as r
InitializeEnd(op, o, r) ==
  /\ payloads' = Append(payloads, r.payload)
  /\ objects' = [objects EXCEPT ![o].data = Len(payloads) + 1]
  /\ Called(op, objects[o].T, HandleOf(o), r.out)

\* DataTypeStorage<T>::initialize(value, args...)
Initialize ==
  /\ Len(payloads) < MaxPayloads /\ gc.phase = "idle"
  /\ \E o \in 1..Len(objects) :
       InitializeEnd("initialize", o,
         attach(objects[o].T, new_T(objects[o].T), objects[o].addr))
  /\ UNCHANGED <<data_type_, alloc_func, gc>>

\* the runtime freezes a shell
Freeze ==
  /\ gc.phase = "idle"
  /\ \E o \in 1..Len(objects) :
       /\ ~objects[o].fz
       /\ objects' = [objects EXCEPT ![o].fz = TRUE]
  /\ UNCHANGED <<build, stack, errinfo, nextId, outcome, finished, inflight,
                 unprotected, conv, data_type_, alloc_func, payloads, gc,
                 pins, freed>>

\* the Handles converted to a reference to Base: the shells and two Handles
\* that are no shells
AccessInputs ==
  {HandleOf(o) : o \in 1..Len(objects)} \cup {StrH("foo"), IntH(5)}

\* from_Value<Base &> (define_method) or from_Value<Base const &>
\* (define_method_const) of a Handle
Access ==
  /\ gc.phase = "idle" /\ nextId <= MaxCalls
  /\ \E h \in AccessInputs : \E T \in {"Base&", "Base const&"} :
       Called("access", T, h, from_Value(T, h, errinfo, nextId))
  /\ UNCHANGED <<data_type_, alloc_func, objects, payloads, gc>>

\* binding the native types, and conversions before and after
NextBind ==
  \/ Bind
  \/ Get
  \/ Access

SpecBind == InitData /\ [][NextBind]_vars

\* the life of the shells of Base
NextShell ==
  \/ Allocate({"Base"})
  \/ Initialize
  \/ Freeze
  \/ Access

SpecShell == InitBound /\ [][NextShell]_vars

\* DataTypeStorage<T>::initialize_copy(value, obj): value is shell o, obj the
\* payload of shell src
InitializeCopy ==
  /\ Len(payloads) < MaxPayloads /\ gc.phase = "idle"
  /\ \E o \in 1..Len(objects), src \in 1..Len(objects) :
       /\ objects[src].data # 0
       /\ objects[src].T = objects[o].T
       /\ InitializeEnd("initialize_copy", o,
            attach(objects[o].T,
                   AssociatedValue_copy(payloads[objects[src].data]),
                   objects[o].addr))
  /\ UNCHANGED <<data_type_, alloc_func, gc>>

\* native code calls associate_value(v) on payload p, v the Handle of a shell
AssociateValueEnd(p, r) ==
  /\ payloads' = [payloads EXCEPT ![p] = r.payload]
  /\ Called("associate", payloads[p].T, Native("payload", p), r.out)

AssociateValue ==
  /\ gc.phase = "idle"
  /\ \E p \in 1..Len(payloads), o \in 1..Len(objects) :
       AssociateValueEnd(p, associate_value(payloads[p], objects[o].addr))
  /\ UNCHANGED <<data_type_, alloc_func, objects, gc>>

\* the shells whose data pointer is set: the runtime calls dmark and dcompact
\* of a shell only then
WithData == {o \in 1..Len(objects) : objects[o].data # 0}

\* rb_gc_location(a): where the object that was at a is after the move
rb_gc_location(a) ==
  IF a \in DOMAIN gc.forward THEN gc.forward[a] ELSE a

\* a mark_movable whose compaction phase does nothing, as mark_pinned's
Gc_mark_movable_pinned(phase, value) ==
  IF phase = "Marking" THEN [value |-> value, marked |-> {value}]
  ELSE [value |-> value, marked |-> {}]

\* gc::Gc::mark_movable(value): value is a reference; the result is what it
\* holds afterwards and what rb_gc_mark_movable was given
Gc_mark_movable(phase, value) ==
  IF phase = "Marking" THEN [value |-> value, marked |-> {value}]
  ELSE [value |-> rb_gc_location(value), marked |-> {}]

\* the payload after mark_movable of its value_ ended as m
Marked(p, m) == [payload |-> [p EXCEPT !.value_ = m.value], marked |-> m.marked]

\* AssociatedValue::mark_associated_value(gc)
mark_associated_value(phase, p) ==
  IF p.value_ # NoValue THEN Marked(p, Gc_mark_movable(phase, p.value_))
  ELSE [payload |-> p, marked |-> {}]

\* typed_data::dmark(gc, p): the overload for TwoWayAssociation or the no-op
dmark(phase, p) ==
  IF TwoWay(p.T) THEN mark_associated_value(phase, p)
  ELSE [payload |-> p, marked |-> {}]

\* the runtime starts to mark
GcMark ==
  /\ gc.phase = "idle"
  /\ gc' = [NoGc EXCEPT !.phase = "marking", !.pending = WithData]
  /\ UNCHANGED <<build, stack, errinfo, nextId, outcome, finished, inflight,
                 unprotected, conv, data_type_, alloc_func, objects, payloads,
                 pins, freed>>

\* the callback of shell o ended as r
Visited(o, r) ==
  /\ payloads' = [payloads EXCEPT ![objects[o].data] = r.payload]
  /\ gc' = [gc EXCEPT !.pending = @ \ {o}, !.marked = @ \cup r.marked]
  /\ UNCHANGED <<build, stack, errinfo, nextId, outcome, finished, inflight,
                 unprotected, conv, data_type_, alloc_func, objects,
                 pins, freed>>

\* .dmark of rb_data_type_t: the runtime marks the children of a shell
Dmark ==
  /\ gc.phase = "marking"
  /\ \E o \in gc.pending :
       Visited(o, dmark("Marking", payloads[objects[o].data]))

\* the ways the runtime can move the shells: each stays or goes to an address
\* that was free, no two to the same
Moves ==
  {m \in [1..Len(objects) -> Addrs] :
     /\ \A o \in 1..Len(objects) :
          m[o] = objects[o].addr \/ m[o] \in FreeAddrs
     /\ \A o1, o2 \in 1..Len(objects) : m[o1] = m[o2] => o1 = o2}

\* the runtime moves the shells after marking and starts to update references
GcCompact ==
  /\ gc.phase = "marking" /\ gc.pending = {}
  /\ \E m \in Moves :
       /\ objects' = [o \in 1..Len(objects) |->
                        [objects[o] EXCEPT !.addr = m[o]]]
       /\ gc' = [phase |-> "compacting", marked |-> {}, pending |-> WithData,
                 forward |-> [a \in {objects[o].addr : o \in 1..Len(objects)}
                   |-> m[CHOOSE o \in 1..Len(objects) : objects[o].addr = a]]]
  /\ UNCHANGED <<build, stack, errinfo, nextId, outcome, finished, inflight,
                 unprotected, conv, data_type_, alloc_func, payloads,
                 pins, freed>>

\* .dcompact of rb_data_type_t: the runtime updates the references of a shell
Dcompact ==
  /\ gc.phase = "compacting"
  /\ \E o \in gc.pending :
       Visited(o, dmark("Compaction", payloads[objects[o].data]))

\* the collection ends, after marking or after compaction
GcEnd ==
  /\ gc.phase # "idle" /\ gc.pending = {}
  /\ gc' = NoGc
  /\ UNCHANGED <<build, stack, errinfo, nextId, outcome, finished, inflight,
                 unprotected, conv, data_type_, alloc_func, objects, payloads,
                 pins, freed>>

\* the life of the shells of Associated under the collector
NextGc ==
  \/ Allocate({"Associated"})
  \/ Initialize
  \/ InitializeCopy
  \/ AssociateValue
  \/ GcMark
  \/ Dmark
  \/ GcCompact
  \/ Dcompact
  \/ GcEnd

SpecGc == InitBound /\ [][NextGc]_vars

---------------------------------------------------------------------------
(* Pinning wrappers (PinnedOpt<T>, Pinned<T>): the wrappers that share a   *)
(* Storage are counted by the std::shared_ptr that owns it.                *)

\* rb_gc_register_address(addr): the runtime puts the address in front of
\* its list of registered addresses
rb_gc_register_address(roots, a) == <<a>> \o roots

\* rb_gc_unregister_address(addr): the runtime takes the first entry that
\* holds the address out of its list
RECURSIVE rb_gc_unregister_address(_, _)
rb_gc_unregister_address(roots, a) ==
  IF roots = <<>> THEN roots
  ELSE IF Head(roots) = a THEN Tail(roots)
  ELSE <<Head(roots)>> \o rb_gc_unregister_address(Tail(roots), a)

\* PinnedOpt<T>::Storage::Storage(T v) for the Storage made at address a
Storage_ctor(p, a, v) ==
  [storage |-> [p.storage EXCEPT ![a] = [value |-> v, refs |-> 1]],
   roots   |-> rb_gc_register_address(p.roots, a)]

\* a destructor that leaves the address registered
Storage_dtor_registered(p, a) ==
  [p EXCEPT !.storage[a] = NoStorage]

\* PinnedOpt<T>::Storage::~Storage() of the Storage at address a
Storage_dtor(p, a) ==
  [storage |-> [p.storage EXCEPT ![a] = NoStorage],
   roots   |-> rb_gc_unregister_address(p.roots, a)]

\* the copy constructor of PinnedOpt<T>: the copy shares the Storage
PinnedOpt_copy(p, a) == [p EXCEPT !.storage[a].refs = @ + 1]

\* the destructor of PinnedOpt<T>: the last wrapper destroys the Storage
PinnedOpt_dtor(p, a) ==
  IF p.storage[a].refs = 1 THEN Storage_dtor(p, a)
  ELSE [p EXCEPT !.storage[a].refs = @ - 1]

\* the addresses at which a Storage is alive
LiveStorage == {a \in 1..MaxPins : pins.storage[a].refs > 0}

\* an operation on pinning wrappers leaves pins as q
Pinning(q) ==
  /\ pins' = q
  /\ UNCHANGED <<build, stack, errinfo, nextId, outcome, finished, inflight,
                 unprotected, conv, data_type_, alloc_func, objects, payloads,
                 gc, freed>>

\* PinnedOpt<T>::PinnedOpt(T value): std::make_shared<Storage>(value) makes
\* the Storage at an address that holds none
PinNew ==
  \E a \in (1..MaxPins) \ LiveStorage : \E v \in {StrH("foo"), StrH("bar")} :
    Pinning(Storage_ctor(pins, a, v))

\* a pinning wrapper is copied
PinCopy ==
  \E a \in LiveStorage :
    /\ pins.storage[a].refs < MaxRefs
    /\ Pinning(PinnedOpt_copy(pins, a))

\* a pinning wrapper is destroyed
PinDestroy ==
  \E a \in LiveStorage : Pinning(PinnedOpt_dtor(pins, a))

NextPin ==
  \/ PinNew
  \/ PinCopy
  \/ PinDestroy

SpecPin == Init /\ [][NextPin]_vars

---------------------------------------------------------------------------
(* The end of a shell: the runtime sweeps it and calls the free callback   *)
(* that bind registered (typed_data::dfree, which deletes the payload).    *)

\* typed_data::dfree(p): delete p; log is the history of the calls
dfree(log, p) == Append(log, p)

\* the shells without shell o
Swept(o) == SubSeq(objects, 1, o - 1) \o SubSeq(objects, o + 1, Len(objects))

\* the runtime sweeps shell o: it calls .dfree of rb_data_type_t with the
\* data pointer of the shell unless that is null, and the shell is no more
Sweep ==
  /\ gc.phase = "idle"
  /\ \E o \in 1..Len(objects) :
       /\ freed' = IF objects[o].data # 0
                     THEN dfree(freed, objects[o].data) ELSE freed
       /\ objects' = Swept(o)
  /\ UNCHANGED <<build, stack, errinfo, nextId, outcome, finished, inflight,
                 unprotected, conv, data_type_, alloc_func, payloads, gc,
                 pins>>

\* the life of the shells of Associated from allocation to sweep
NextSweep ==
  \/ Allocate({"Associated"})
  \/ Initialize
  \/ InitializeCopy
  \/ GcMark
  \/ Dmark
  \/ GcEnd
  \/ Sweep

SpecSweep == InitBound /\ [][NextSweep]_vars

---------------------------------------------------------------------------
(* A bound method that returns its own payload by reference, and native    *)
(* code that converts a payload it made itself.                            *)

\* IntoValue<T>::convert that gives nil for a payload that holds no Handle
IntoValue_TwoWay_nil(p, ei) ==
  IF p.value_ # NoValue THEN ConvOk(Native("VALUE", p.value_), ei)
  ELSE ConvOk(Qnil, ei)

\* IntoValue<T>::convert(T &value) for T derived from TwoWayAssociation: the
\* Handle is the address the payload holds
IntoValue_TwoWay(p, ei) ==
  IF p.value_ # NoValue THEN ConvOk(Native("VALUE", p.value_), ei)
  ELSE ConvThrow(StdException("St13runtime_error",
                              "This object is not managed by Ruby"), ei)

\* the trampoline of return_self after from_Value<Associated &> of the
\* receiver ended as self: Associated::return_self returns *this
return_self(self) ==
  IF self.st # "ok" THEN self
  ELSE IntoValue_TwoWay(payloads[self.val.i], self.errinfo)

\* the runtime calls return_self on shell o
ReturnSelf ==
  /\ gc.phase = "idle"
  /\ \E o \in 1..Len(objects) :
       Called("return_self", objects[o].T, HandleOf(o),
              return_self(WrappedStruct_data(ConvOk(HandleOf(o), errinfo))))
  /\ UNCHANGED <<data_type_, alloc_func, objects, payloads, gc>>

\* the payloads native code makes itself: by new T or as a copy of the
\* payload of a shell
NativePayloads ==
  {new_T("Associated")} \cup
  {AssociatedValue_copy(payloads[objects[o].data]) : o \in WithData}

\* native code converts a payload it made itself
IntoValueNative ==
  /\ gc.phase = "idle"
  /\ \E q \in NativePayloads :
       Called("into_Value", q.T, Qnil, IntoValue_TwoWay(q, errinfo))
  /\ UNCHANGED <<data_type_, alloc_func, objects, payloads, gc>>

\* the life of the shells of Associated under the collector, and the
\* conversions of payloads to Handles
NextSelf ==
  \/ Allocate({"Associated"})
  \/ Initialize
  \/ InitializeCopy
  \/ GcMark
  \/ Dmark
  \/ GcCompact
  \/ Dcompact
  \/ GcEnd
  \/ ReturnSelf
  \/ IntoValueNative

SpecSelf == InitBound /\ [][NextSelf]_vars


---------------------------------------------------------------------------
(* Properties.                                                             *)

\* the invocations a state shows: the live ones and the one that ended last
Frames ==
  {stack[k] : k \in 1..Len(stack)}
    \cup (IF finished.frame.pc = "none" THEN {} ELSE {finished.frame})

SpecsOf(f) == Methods[f.m].specs

\* the argument slots that the specs before spec j take from argv
SlotsBefore(f, j) ==
  LET n == Cardinality({k \in 1..(j - 1) : SpecsOf(f)[k].spec \in {"Arg", "ArgOpt"}})
  IN  IF n < Len(f.argv) THEN n ELSE Len(f.argv)

\* from_Value<T> of a handle that converts
ValueOf(T, h) == from_Value(T, h, Qnil, 0).val

\* the process was ended instead of the call
ProcessEnded == outcome.kind \in {"terminate", "crash", "abort"}

(* C1: every invocation of a trampoline ends by returning a Handle or by a *)
(* raise or jump of the runtime, whatever native exception is thrown        *)
(* inside it; the process is never ended by an exception that escapes the  *)
(* noexcept wrapper, not even one thrown while the replacement error is    *)
(* built.                                                                  *)
C1_TrampolineNeverEndsProcess ==
  /\ ~ProcessEnded
  /\ \A f \in Frames : f = finished.frame =>
       finished.sig.state \in {RUBY_TAG_NONE} \cup RubyTags

(* C2: an exception object that the runtime raises inside an outbound      *)
(* protected call, and that the closure does not catch, is the very object *)
(* raised to the managed caller of the trampoline: every frame it passes   *)
(* carries it as RubyError of the same handle, every invocation it ends    *)
(* delivers a raise of it, and so does the outermost one.                  *)
C2_RaiseKeepsIdentity ==
  (inflight.src = "runtime" /\ inflight.state = RUBY_TAG_RAISE) =>
    /\ stack # <<>> => Top.exn = RubyError(inflight.val)
    /\ finished.frame.pc # "none" => finished.sig = Raised(inflight.val)
    /\ stack = <<>> => outcome = [kind |-> "raise", state |-> RUBY_TAG_RAISE,
                                 val |-> inflight.val]

\* the raise of a nested outbound call reached the outermost caller
C2_Witness ==
  /\ outcome.kind = "raise"
  /\ inflight.src = "runtime" /\ inflight.state = RUBY_TAG_RAISE
  /\ inflight.depth = MaxDepth

(* C3: a transfer with a tag other than 0 and the raise tag, made by the   *)
(* runtime during an outbound call at any nesting depth, is carried as a   *)
(* Jump with that tag through every frame and re-triggered with the same   *)
(* tag by every trampoline it ends, the outermost included; it never       *)
(* becomes a return value, a raise or another tag.                         *)
C3_JumpForwardedUnchanged ==
  (inflight.src = "runtime" /\ inflight.state # RUBY_TAG_RAISE) =>
    /\ stack # <<>> => Top.exn = Jump(inflight.state)
    /\ finished.frame.pc # "none" => finished.sig = Sig(inflight.state, Qnil)
    /\ stack = <<>> => outcome = [kind |-> "jump", state |-> inflight.state,
                                 val |-> Qnil]

\* a throw tag raised in the innermost outbound call reached the outermost
\* caller
C3_Witness ==
  /\ outcome.kind = "jump" /\ outcome.state = 7
  /\ inflight.src = "runtime" /\ inflight.depth = MaxDepth

(* C4: a native exception that is neither a RubyError nor a Jump and that  *)
(* reaches the trampoline is raised in the runtime as a RuntimeError whose *)
(* message is "<type name>: <message>", with the name "unknown" when no    *)
(* type name is recoverable and an empty message when there is none; the   *)
(* process does not crash.                                                 *)
C4_NativeFaultRaisedAsRuntimeError ==
  \A f \in Frames :
    (f = finished.frame /\ f.pc = "caught" /\ f.exn.kind \in {"std", "other"}) =>
      /\ ~ProcessEnded
      /\ finished.sig.state = RUBY_TAG_RAISE
      /\ finished.sig.val.k = "Exception"
      /\ finished.sig.val.s = "RuntimeError"
      /\ finished.sig.val.m \in
           {name \o ": " \o f.exn.what : name \in {Demangled(f.exn.tname), "unknown"}}

(* C5: every call into the runtime that can raise and is made during a     *)
(* value conversion or during argument parsing is made through the         *)
(* protected call, so that no raise of the runtime unwinds the native      *)
(* frames of the parser directly.                                          *)
C5_ConversionsRaiseOnlyThroughProtect == unprotected = {}

\* spec j of frame f has been parsed
StepRan(f, j) == \E k \in 1..Len(f.order) : f.order[k] = j

\* frame f was ended by the ArgumentError that names the parameter
MissingArgument(f, name) ==
  /\ f = finished.frame /\ f.pc = "unwound" /\ f.calls = 0
  /\ finished.sig.state = RUBY_TAG_RAISE
  /\ finished.sig.val.s = "ArgumentError"
  /\ finished.sig.val.m = "Missing required argument (" \o name \o ")"
  /\ stack = <<>> => (outcome.kind = "raise" /\ outcome.val = finished.sig.val)

\* the step of the Arg spec j of f took the argument at position k of argv
ArgTaken(f, j, k) ==
  IF f.results[j] = PUnset
    THEN from_Value(SpecsOf(f)[j].T, f.argv[k], Qnil, 0).st # "ok" /\ f.calls = 0
    ELSE /\ f.results[j] = PVal(ValueOf(SpecsOf(f)[j].T, f.argv[k]))
         /\ f.done = j => f.args = SubSeq(f.argv, k + 1, Len(f.argv))

(* C6: an Arg (required) spec reached with an empty remaining slice ends   *)
(* the call with an ArgumentError whose message names the parameter, and   *)
(* the closure is not invoked; otherwise the first remaining element is    *)
(* converted with from_Value<T> and the slice advances by exactly one.     *)
(* The method [Self<int>, Arg<int,"n">] with closure self+n returns 8 for  *)
(* receiver 5 and arguments [3], and fails with ArgumentError naming "n"   *)
(* for no arguments.                                                       *)
C6_RequiredSpec ==
  \A f \in Frames :
    /\ \A j \in DOMAIN SpecsOf(f) :
         (SpecsOf(f)[j].spec = "Arg" /\ StepRan(f, j)) =>
           IF SlotsBefore(f, j) = Len(f.argv)
             THEN MissingArgument(f, SpecsOf(f)[j].name)
             ELSE ArgTaken(f, j, SlotsBefore(f, j) + 1)
    /\ (f.m = "add" /\ f.self = IntH(5) /\ f = finished.frame) =>
         /\ f.argv = <<IntH(3)>> =>
              (finished.sig = Returned(IntH(8)) /\ f.calls = 1)
         /\ f.argv = <<>> => MissingArgument(f, "n")

\* the tuple that [Self, Required<int>, Optional<String>, Splat<int>] yields
\* for self and an argument vector of length N >= 1
RequiredOptionalSplat(self, argv) ==
  <<PVal(self),
    PVal(ValueOf("int", argv[1])),
    IF Len(argv) >= 2 THEN PPresent(ValueOf("String", argv[2])) ELSE PAbsent,
    PSeq([k \in 1..(IF Len(argv) >= 2 THEN Len(argv) - 2 ELSE 0) |->
            ValueOf("int", argv[k + 2])])>>

(* C7: for the spec list [Required<A>, Optional<B>, Splat<C>] and N        *)
(* arguments: N = 0 fails with ArgumentError; N = 1 yields (A(arg0),       *)
(* absent, empty sequence); N = 2 yields (A(arg0), present B(arg1), empty  *)
(* sequence); N >= 2 yields (A(arg0), present B(arg1), the N-2 remaining   *)
(* arguments each converted to C).                                         *)
C7_RequiredOptionalSplat ==
  \A f \in Frames :
    f.m = "req_opt_splat" =>
      /\ (f.argv = <<>> /\ f.pc # "parse") => MissingArgument(f, "a")
      /\ f.done = Len(SpecsOf(f)) =>
           f.results = RequiredOptionalSplat(f.self, f.argv)

(* C8: the result of the Splat spec is the sequence of all the arguments   *)
(* that remained when it was reached, each converted, in their order, as   *)
(* many as remained; after it the remaining slice is empty.  A method with *)
(* [Arg<String>, Splat] called with ("foo", "bar", "baz") gives the        *)
(* closure "foo" and the sequence ("bar", "baz").                          *)
C8_SplatYieldsRemaining ==
  \A f \in Frames : \A j \in DOMAIN SpecsOf(f) :
    (SpecsOf(f)[j].spec = "ArgSplat" /\ f.results[j] # PUnset) =>
      /\ f.args = <<>>
      /\ f.results[j] =
           PSeq([k \in 1..(Len(f.argv) - SlotsBefore(f, j)) |->
                   ValueOf(SpecsOf(f)[j].T, f.argv[SlotsBefore(f, j) + k])])

(* C9: the parse steps of a spec list run strictly in the order of the     *)
(* list, first to last, for every argument count: the k-th step that runs  *)
(* is the step of spec k; and all of them have completed before the        *)
(* closure starts to run.                                                  *)
C9_ParseStepsInSpecOrder ==
  \A f \in Frames :
    /\ Len(f.order) <= Len(SpecsOf(f))
    /\ \A k \in 1..Len(f.order) : f.order[k] = k
    /\ f.calls > 0 =>
         /\ Len(f.order) = Len(SpecsOf(f))
         /\ \A j \in DOMAIN SpecsOf(f) : f.results[j] # PUnset

\* the four steps of [Self, Arg, ArgOpt, ArgSplat] ran on three arguments
\* and the closure was invoked after them
C9_Witness ==
  /\ finished.frame.m = "req_opt_splat" /\ Len(finished.frame.argv) = 3
  /\ finished.frame.order = <<1, 2, 3, 4>> /\ finished.frame.calls = 1
  /\ outcome.kind = "return"

\* sig delivers the error in which the parse step failed
DeliversParseError(sig) ==
  /\ sig.state = RUBY_TAG_RAISE
  /\ IF inflight.state = RUBY_TAG_RAISE
       THEN sig.val = inflight.val
       ELSE /\ sig.val.s = "RuntimeError"
            /\ sig.val.m \in {name \o ": " \o inflight.exn.what :
                                name \in {Demangled(inflight.exn.tname), "unknown"}}

\* the parse of frame f stopped at the failing spec and the closure was not
\* invoked
ParseStoppedAt(f, i) ==
  /\ f.calls = 0
  /\ f.order # <<>> /\ f.order[Len(f.order)] = i
  /\ \A j \in DOMAIN SpecsOf(f) : j >= i => (f.results[j] = PUnset)
  /\ \A j \in DOMAIN SpecsOf(f) : j > i => ~StepRan(f, j)

(* C10: when the parse step of spec i fails, the whole call fails with     *)
(* exactly the error of that spec, no step of a later spec runs, and the   *)
(* closure is not invoked.                                                 *)
C10_ParseFailureShortCircuits ==
  \A f \in Frames :
    (inflight.src = "parse" /\ f.pc \in {"caught", "unwound"}) =>
      /\ ParseStoppedAt(f, inflight.idx)
      /\ f = finished.frame =>
           (~ProcessEnded /\ DeliversParseError(finished.sig))

\* the signal that the deepest invocation of the present chain delivered
Innermost == finished.inner

\* the innermost of NestDepth nested invocations has returned a result
InnermostReturned ==
  Innermost.depth = NestDepth /\ Innermost.sig.state = RUBY_TAG_NONE

(* C11: when trampolines are entered recursively to depth 3 (managed       *)
(* caller -> closure -> send -> closure -> send -> closure) and the        *)
(* innermost closure returns a result, that result comes back unchanged    *)
(* from every enclosing protected call, every enclosing invocation ends by *)
(* returning it, and the outermost caller receives it; no nested           *)
(* invocation disturbs the state of an enclosing one.                      *)
C11_NestedResultDelivered ==
  InnermostReturned =>
    /\ ~ProcessEnded
    /\ finished.sig = Returned(Innermost.sig.val)
    /\ \A k \in 1..Len(stack) :
         /\ stack[k].m = "foo" /\ stack[k].calls = 1
         /\ stack[k].pc \in {"outbound", "resumed", "returning"}
         /\ stack[k].pc = "outbound" <=> k < Len(stack)
         /\ k = Len(stack) =>
              (stack[k].val = Innermost.sig.val /\ stack[k].exn = NoExn)
    /\ stack = <<>> =>
         outcome = [kind |-> "return", state |-> RUBY_TAG_NONE,
                    val |-> Innermost.sig.val]


(* C12: for every registered scalar type T (bool, the signed and unsigned  *)
(* integer types) and every value v of T, its least and greatest included, *)
(* from_Value<T>(into_Value<T>(v)) succeeds and equals v.                  *)
C12_ScalarRoundTrip ==
  conv.op = "roundtrip" =>
    (conv.out.st = "ok" /\ conv.out.val = conv.input /\ ~ProcessEnded)

\* the RangeError that from_Value<T> reports for v, too small or too big
RangeErrorOf(T, v, dir) ==
  /\ conv.out.st = "throw" /\ conv.out.exn.kind = "RubyError"
  /\ conv.out.exn.val.k = "Exception" /\ conv.out.exn.val.s = "RangeError"
  /\ conv.out.exn.val.m =
       "integer " \o ToString(v) \o " too " \o dir \o " to convert to '"
         \o T \o "'"

(* C13: for signed char and unsigned char and every integer v of int       *)
(* range: below the type's least value from_Value fails with a RangeError  *)
(* naming the type and saying "too small", above its greatest value with   *)
(* one saying "too big", and inside the range it returns v.                *)
C13_EightBitRange ==
  conv.op = "from" =>
    IF conv.input.i < TypeMin(conv.T)
      THEN RangeErrorOf(conv.T, conv.input.i, "small")
    ELSE IF conv.input.i > TypeMax(conv.T)
      THEN RangeErrorOf(conv.T, conv.input.i, "big")
    ELSE conv.out.st = "ok" /\ conv.out.val = Native(conv.T, conv.input.i)


(* C14: into_Value of a present optional holding x is the Handle that      *)
(* into_Value(x) gives (optional<int>{42} becomes 42), and into_Value of   *)
(* an absent optional is nil; nothing is read from an absent optional.     *)
C14_IntoOptional ==
  conv.op = "into_optional" =>
    /\ conv.out.st = "ok"
    /\ conv.out.val = IF conv.input.tag = "present"
                        THEN into_Value(conv.input.v) ELSE Qnil

\* what from_Value<T> gives for the input of the conversion applied, which
\* started in the initial state
ElementConv == from_Value(conv.T, conv.input, Qnil, 1)

ErrorClass(out) ==
  IF out.st = "throw" /\ out.exn.kind = "RubyError" THEN out.exn.val.s
  ELSE IF out.st = "longjmp" THEN out.sig.val.s
  ELSE ""

\* the message of that error
ErrorMessage(out) ==
  IF out.st = "throw" /\ out.exn.kind = "RubyError" THEN out.exn.val.m
  ELSE IF out.st = "longjmp" THEN out.sig.val.m
  ELSE ""

\* element i of the Array given, converted to the i-th type of the tuple
ElementOf(i) == from_Value(conv.T[i], conv.input.a[i], Qnil, 1)

(* C16: from_Value of tuple<T1..Tn> succeeds only for an Array of length   *)
(* n, and then yields element i converted to Ti at every index i; an Array *)
(* of another length fails with an ArgumentError that names n; a Handle    *)
(* that is not an Array fails with a TypeError; and in both failure cases  *)
(* no element is converted.                                                *)
C16_FromTuple ==
  conv.op = "from_tuple" =>
    IF conv.input.k # "Array"
      THEN ErrorClass(conv.out) = "TypeError" /\ conv.steps = <<>>
    ELSE IF Len(conv.input.a) # Len(conv.T)
      THEN /\ ErrorClass(conv.out) = "ArgumentError"
           /\ ErrorMessage(conv.out) =
                "Array of length " \o ToString(Len(conv.T)) \o " is expected"
           /\ conv.steps = <<>>
    ELSE IF \A i \in 1..Len(conv.T) : ElementOf(i).st = "ok"
      THEN /\ conv.out.st = "ok"
           /\ conv.out.val = PSeq([i \in 1..Len(conv.T) |-> ElementOf(i).val])
    ELSE conv.out.st # "ok"


\* T is bound
Bound(T) == data_type_[T].bound

\* a std::runtime_error with the message what was thrown
RuntimeErrorOf(out, what) ==
  out.st = "throw" /\ out.exn.kind = "std" /\ out.exn.what = what

\* what holds in every state: a bound type has its four collector callbacks
\* and a class; a bind that succeeded registered the class it was given; get
\* on an unbound type fails as "not yet bound", and no conversion to a
\* reference to Base succeeds while Base is unbound
C17_BoundState ==
  /\ \A T \in Types : Bound(T) =>
       /\ data_type_[T].function = {"dmark", "dfree", "dsize", "dcompact"}
       /\ data_type_[T].data \in Classes
       /\ data_type_[T].parent = ParentOf(T)
       /\ alloc_func[data_type_[T].data.s] # ""
  /\ (conv.op = "bind" /\ conv.out.st = "ok") =>
       (Bound(conv.T) /\ data_type_[conv.T].data = conv.input)
  /\ (conv.op = "get" /\ ~Bound(conv.T)) =>
       RuntimeErrorOf(conv.out,
         "Type '" \o conv.T \o "' is not yet bound to a Ruby Class")
  /\ (conv.op = "get" /\ Bound(conv.T)) => conv.out.st = "ok"
  /\ (conv.op = "access" /\ ~Bound("Base")) => conv.out.st # "ok"
  /\ (conv.op = "access" /\ ~Bound("Base")
        /\ (conv.T = "Base const&" \/ ~conv.input.fz)) =>
       RuntimeErrorOf(conv.out,
         "Type 'Base' is not yet bound to a Ruby Class")

\* what holds of every step: the binding of a bound type never changes, and
\* a bind attempted for a bound type throws and changes no allocation
\* function
C17_BoundStep ==
  /\ \A T \in Types : Bound(T) => data_type_'[T] = data_type_[T]
  /\ (conv' # conv /\ conv'.op = "bind" /\ Bound(conv'.T)) =>
       /\ conv'.out.st = "throw" /\ conv'.out.exn.kind = "std"
       /\ SuperOf(conv'.T) = "Value" =>
            conv'.out.exn.what = "This type is already bound to a Ruby Class"
       /\ UNCHANGED <<data_type_, alloc_func>>

(* C17: per native type the binding state only moves from Unbound to       *)
(* Bound: the first bind registers the collector callbacks and the class;  *)
(* every later bind for the same type fails with an error and leaves the   *)
(* class, the callbacks and the parent as they were; and get fails with a  *)
(* "not yet bound" error while the type is Unbound, so that from_Value of  *)
(* the type cannot succeed.                                                *)
C17_BindOnce == [](C17_BoundState) /\ [][C17_BoundStep]_vars

\* a second bind of a type, to another class, has failed
C17_Witness ==
  /\ conv.op = "bind" /\ Bound(conv.T)
  /\ RuntimeErrorOf(conv.out, "This type is already bound to a Ruby Class")
  /\ data_type_[conv.T].data # conv.input


\* the conversion applied last was an access to a shell of Base
ShellAccessed == conv.op = "access" /\ conv.input.k = "Base"

\* the access was a mutating one to a frozen shell
FrozenAccess == conv.T = "Base&" /\ conv.input.fz

\* the access failed because the shell has no payload
Uninitialized == RuntimeErrorOf(conv.out, "Object is not yet initialized")

\* the access gave a reference to the payload attached to the shell
GavePayload == conv.out.st = "ok" /\ conv.out.val = NRef(conv.input.i)

\* the statement as it was made: an uninitialized-object error whenever the
\* shell has no payload, whatever the access and whether frozen or not
C18_ShellAccess_AsStated ==
  ShellAccessed =>
    /\ conv.input.i = 0 => Uninitialized
    /\ FrozenAccess => ErrorClass(conv.out) = "FrozenError"
    /\ (conv.input.i # 0 /\ ~FrozenAccess) => GavePayload

(* C18: for a shell of a native-bound class, a mutating (non-const) access *)
(* to a frozen shell fails with FrozenError, whether or not the shell has  *)
(* a payload, because the frozen check runs first; every other access      *)
(* (const, or to a shell that is not frozen) fails with the                *)
(* uninitialized-object error while the shell has no payload and, after    *)
(* initialize, succeeds with a reference to the attached payload.          *)
C18_ShellAccess ==
  ShellAccessed =>
    /\ FrozenAccess => ErrorClass(conv.out) = "FrozenError"
    /\ (~FrozenAccess /\ conv.input.i = 0) => Uninitialized
    /\ (~FrozenAccess /\ conv.input.i # 0) => GavePayload

\* a mutating access to a frozen shell without payload failed as frozen
C18_Witness ==
  /\ ShellAccessed /\ FrozenAccess /\ conv.input.i = 0
  /\ ErrorClass(conv.out) = "FrozenError"

\* the shells whose data pointer is payload p
ShellsOf(p) == {o \in 1..Len(objects) : objects[o].data = p}

\* a step of initialize or initialize_copy of a two-way type: the call
\* returned, the new payload is the data of the shell it was given and holds
\* the Handle of that shell, and no other payload changed
C19_InitializeStep ==
  (Len(payloads') = Len(payloads) + 1 /\ TwoWay(conv'.T)) =>
    /\ conv'.op \in {"initialize", "initialize_copy"}
    /\ conv'.out.st = "ok"
    /\ \E o \in 1..Len(objects) :
         /\ conv'.input = HandleOf(o)
         /\ objects'[o].data = Len(payloads')
         /\ \A o2 \in 1..Len(objects) :
              objects'[o2].data = Len(payloads') => o2 = o
         /\ payloads'[Len(payloads')].value_ = objects'[o].addr
    /\ \A p \in 1..Len(payloads) : payloads'[p] = payloads[p]

\* a step of associate_value on a payload that holds a Handle: it throws and
\* no payload changes
C19_AssociateStep ==
  (conv'.op = "associate" /\ conv' # conv
     /\ payloads[conv'.input.i].value_ # NoValue) =>
    /\ RuntimeErrorOf(conv'.out, "Already associcated")
    /\ payloads' = payloads

(* C19: for a native type with two-way association, initialize and         *)
(* initialize_copy leave the new payload associated with exactly the shell *)
(* it was attached to, and associate_value on a payload that already holds *)
(* a Handle fails and leaves the stored Handle as it was.                  *)
C19_Association == [][C19_InitializeStep /\ C19_AssociateStep]_vars

\* initialize_copy has attached to one shell a copy of the payload of another
\* shell, and each of the two payloads holds the Handle of its own shell
C19_Witness ==
  /\ conv.op = "initialize_copy" /\ conv.out.st = "ok"
  /\ \E o \in ShellsOf(Len(payloads)), src \in 1..Len(objects) :
       /\ src # o /\ objects[src].data # 0
       /\ payloads[Len(payloads)].value_ = objects[o].addr
       /\ payloads[objects[src].data].value_ = objects[src].addr

\* the Handle in the payload of shell o denotes o where o is now, seen
\* through rb_gc_location while the shells have moved and dcompact of o has
\* not yet run
Denotes(o, v) ==
  IF gc.phase = "compacting" /\ o \in gc.pending
    THEN v \in DOMAIN gc.forward /\ rb_gc_location(v) = objects[o].addr
    ELSE v = objects[o].addr

\* in every state: the Handle a payload of a two-way type holds denotes the
\* shell that owns it, the mark callback has marked it, and the callbacks
\* leave a payload that holds no Handle as it is and mark nothing
C20_State ==
  /\ \A o \in WithData :
       (TwoWay(objects[o].T) /\ payloads[objects[o].data].value_ # NoValue) =>
         /\ Denotes(o, payloads[objects[o].data].value_)
         /\ (gc.phase = "marking" /\ o \notin gc.pending) =>
              payloads[objects[o].data].value_ \in gc.marked
  /\ \A phase \in {"Marking", "Compaction"} : \A T \in Types :
       dmark(phase, new_T(T)) = [payload |-> new_T(T), marked |-> {}]

\* in every step: the mark callback changes no payload, and the compaction
\* callback of a shell leaves in its payload the address the runtime moved
\* that shell to
C20_Step ==
  /\ gc.phase = "marking" => payloads' = payloads
  /\ (gc.phase = "compacting" /\ gc'.phase = "compacting") =>
       \A o \in gc.pending \ gc'.pending :
         /\ payloads'[objects[o].data].value_ = objects[o].addr
         /\ \A p \in 1..Len(payloads) :
              p # objects[o].data => payloads'[p] = payloads[p]

(* C20: for a two-way-associated payload, after any sequence of mark and   *)
(* compaction callbacks in which the owning shell is relocated, the Handle *)
(* stored in the payload refers to the same managed object at its current  *)
(* location: the mark callback marks the stored Handle as movable and      *)
(* leaves it, the compaction callback replaces it by the runtime's new     *)
(* location of the object; a payload with no Handle is left untouched.     *)
C20_Relocation == [](C20_State) /\ [][C20_Step]_vars

\* a collection that moved a shell has ended: the payload holds the address
\* the shell is at now, which is not the one it was allocated at
C20_Witness ==
  /\ gc.phase = "compacting" /\ gc.pending = {}
  /\ \E o \in WithData :
       /\ \E a \in DOMAIN gc.forward :
            gc.forward[a] = objects[o].addr /\ a # objects[o].addr
       /\ payloads[objects[o].data].value_ = objects[o].addr

\* the state that rb_protect reported to the protected call applied last
ProtectState == conv.steps[1]

(* C23: a protected call of a computation that completes without any       *)
(* non-local transfer (state 0) returns exactly the value the computation  *)
(* produced, or returns normally for a void computation, throws nothing    *)
(* and reads its result only from storage the result was stored into.      *)
C23_ProtectReturns ==
  (conv.op = "protect" /\ ProtectState = RUBY_TAG_NONE) =>
    /\ conv.out.st = "ok" /\ ~ProcessEnded
    /\ conv.out.val = (IF conv.T = "void" THEN Qnil ELSE conv.input)

\* a step of a protected call: after a captured raise the pending-error
\* slot is nil and the RubyError thrown holds the exception; a call that
\* completed normally throws nothing and leaves the slot as it was
C27_Step ==
  (conv'.op = "protect" /\ conv' # conv) =>
    /\ conv'.steps[1] = RUBY_TAG_RAISE =>
         /\ errinfo' = Qnil
         /\ conv'.out.st = "throw"
         /\ conv'.out.exn = RubyError(conv'.input)
    /\ conv'.steps[1] = RUBY_TAG_NONE =>
         /\ errinfo' = errinfo
         /\ conv'.out.st # "throw"

(* C27: when a protected call captures a managed exception, the pending-   *)
(* error slot is reset to nil before the RubyError is thrown, so a later   *)
(* protected call that completes normally is not taken for a failure; a    *)
(* protected call that completes normally leaves the slot unchanged.       *)
C27_ErrinfoReset == [][C27_Step]_vars

\* a protected call has completed normally after an earlier one captured a
\* raise, and the pending-error slot is nil
C27_Witness ==
  /\ conv.op = "protect" /\ ProtectState = RUBY_TAG_NONE
  /\ conv.out.st = "ok" /\ nextId > 1 /\ errinfo = Qnil

\* the Handle that the step of spec j of f converts
InputOf(f, j) ==
  IF SpecsOf(f)[j].spec = "Self" THEN f.self
  ELSE f.argv[SlotsBefore(f, j) + 1]

\* the entries of argv that the Arg and ArgOpt specs of f can take
Positional(f) ==
  Cardinality({k \in DOMAIN SpecsOf(f) :
                 SpecsOf(f)[k].spec \in {"Arg", "ArgOpt"}})

\* f has no Splat and was given more arguments than its specs take
Surplus(f) ==
  /\ \A k \in DOMAIN SpecsOf(f) : SpecsOf(f)[k].spec # "ArgSplat"
  /\ Len(f.argv) > Positional(f)

\* the step of spec j of f failed
StepFailed(f, j) == StepRan(f, j) /\ f.results[j] = PUnset

(* C25: surplus arguments are not an error.  When the argument vector      *)
(* holds more entries than the Arg and ArgOpt specs of a list without      *)
(* Splat take, every step converts its leading entry, the parse fails only *)
(* where such a conversion fails, the closure is invoked with the values   *)
(* of the leading entries, the remaining entries stay in the slice, and    *)
(* no ArgumentError is raised.                                             *)
C25_SurplusIgnored ==
  \A f \in Frames : Surplus(f) =>
    /\ \A j \in DOMAIN SpecsOf(f) : StepRan(f, j) =>
         IF f.results[j] = PUnset
           THEN /\ from_Value(SpecsOf(f)[j].T, InputOf(f, j), Qnil, 0).st # "ok"
                /\ f.calls = 0
           ELSE f.results[j].v = ValueOf(SpecsOf(f)[j].T, InputOf(f, j))
    /\ f.pc \notin {"parse", "call"} =>
         (f.calls = 0 <=> \E j \in DOMAIN SpecsOf(f) : StepFailed(f, j))
    /\ f.calls > 0 =>
         /\ f.calls = 1
         /\ f.args = SubSeq(f.argv, Positional(f) + 1, Len(f.argv))
    /\ f = finished.frame =>
         ~(finished.sig.state = RUBY_TAG_RAISE
             /\ finished.sig.val.s = "ArgumentError")

\* the method [Self<Value>, Arg<signed char>] was called with two arguments
\* and returned the first, in a library built with assertions
C25_Witness ==
  /\ finished.frame.m = "take_schar"
  /\ finished.frame.argv = <<IntH(3), StrH("foo")>>
  /\ finished.frame.calls = 1 /\ finished.frame.args = <<StrH("foo")>>
  /\ outcome = [kind |-> "return", state |-> RUBY_TAG_NONE, val |-> IntH(3)]
  /\ build.assertions

\* every step of the list of f has run and none failed
ParseSucceeded(f) ==
  /\ f.pc \notin {"parse", "call"}
  /\ \A j \in DOMAIN SpecsOf(f) : StepRan(f, j) /\ f.results[j] # PUnset

(* C26: for every trampoline invocation whose argument parse succeeds the  *)
(* closure is invoked exactly once, for void-returning and value-returning *)
(* closures alike, with the values of exactly one parse of the argument    *)
(* vector: no spec is parsed a second time and the closure is not run a    *)
(* second time for the result type or the result.                          *)
C26_ClosureInvokedOnce ==
  \A f \in Frames :
    /\ f.calls <= 1
    /\ \A j, k \in 1..Len(f.order) : f.order[j] = f.order[k] => j = k
    /\ ParseSucceeded(f) => f.calls = 1
    /\ f.calls = 1 =>
         /\ \A j \in DOMAIN SpecsOf(f) : StepRan(f, j) /\ f.results[j] # PUnset
         /\ f.pc = "returning" =>
              f.val = ClosureBody(Methods[f.m].body, f.results).val

\* a void closure (set_string) was invoked once and the call returned nil
C26_Witness ==
  /\ finished.frame.m = "set_string" /\ finished.frame.calls = 1
  /\ finished.frame.order = <<1, 2>>
  /\ outcome = [kind |-> "return", state |-> RUBY_TAG_NONE, val |-> Qnil]

\* the access applied last failed with the FrozenError of the runtime
FrozenErrorOf(out) ==
  /\ out.st = "throw" /\ out.exn.kind = "RubyError"
  /\ out.exn.val.s = "FrozenError"

(* C29: read-only access to a String does not need a mutable string: the  *)
(* conversion to a string view (String::operator std::string_view and      *)
(* from_Value<std::string_view>) succeeds for frozen and unfrozen strings  *)
(* alike and never ends the process; only String::data fails, with         *)
(* FrozenError, on a frozen string; cdata never fails.                     *)
C29_ReadOnlyStringAccess ==
  /\ conv.op \in {"view", "cdata"} =>
       /\ conv.out.st = "ok" /\ ~ProcessEnded
       /\ conv.out.val = NStringView(conv.input.s)
  /\ conv.op = "data" =>
       IF conv.input.fz THEN FrozenErrorOf(conv.out) ELSE conv.out.st = "ok"

\* how many entries of the runtime's list hold address a
Registrations(roots, a) ==
  Cardinality({k \in 1..Len(roots) : roots[k] = a})

\* in every state: the address of a Storage is registered once while
\* wrappers share it and not at all otherwise
C22_State ==
  \A a \in 1..MaxPins :
    Registrations(pins.roots, a) = IF pins.storage[a].refs > 0 THEN 1 ELSE 0

\* in every step: the entries of an address change only when a Storage is
\* made at it, by one entry more, and when the last wrapper of its Storage
\* is destroyed, by one entry less
C22_Step ==
  \A a \in 1..MaxPins :
    Registrations(pins'.roots, a) - Registrations(pins.roots, a) =
      IF pins.storage[a].refs = 0 /\ pins'.storage[a].refs = 1 THEN 1
      ELSE IF pins.storage[a].refs = 1 /\ pins'.storage[a].refs = 0 THEN 0 - 1
      ELSE 0

(* C22: pinning is reference counted.  Making a pinning wrapper registers  *)
(* the address of its Handle's storage with the collector exactly once;    *)
(* copies share the storage and the registration; the address stays        *)
(* registered while at least one wrapper sharing the storage is alive and  *)
(* is deregistered exactly once, when the last one is destroyed.           *)
C22_PinCounted == [](C22_State) /\ [][C22_Step]_vars

\* one Storage is shared by two wrappers and its address is registered
\* once; no Storage is alive at the other address and no entry is left of it
C22_Witness ==
  \E a, b \in 1..MaxPins :
    /\ a # b /\ pins.storage[a].refs = 2 /\ pins.storage[b].refs = 0
    /\ pins.roots = <<a>>

\* the payloads dfree was called on
Freed == {freed[i] : i \in 1..Len(freed)}

\* the payloads constructed and not freed
Live == (1..Len(payloads)) \ Freed

(* C30: no payload is orphaned: after any sequence of allocate, initialize *)
(* and initialize_copy calls, every payload that was constructed and not   *)
(* yet freed is the data of exactly one shell.                             *)
C30_NoOrphan == \A p \in Live : Cardinality(ShellsOf(p)) = 1

\* dfree was called at most once on every payload
C21_AtMostOnce ==
  \A i, j \in 1..Len(freed) : freed[i] = freed[j] => i = j

\* a payload that was freed is the data of no shell, so it was freed when its
\* shell was swept and no callback or conversion of a shell reaches it
C21_NotReferenced == \A p \in Freed : ShellsOf(p) = {}

\* once every shell is swept, every payload that was attached to a shell
\* has been freed
C21_AllFreed == objects = <<>> => Live = {}

(* C21: each payload attached to a shell is deallocated by the free        *)
(* callback exactly once, when the collector sweeps the shell and not      *)
(* before, and after that no operation of the binding layer is applied to  *)
(* it.                                                                     *)
C21_FreedOnce == C21_AtMostOnce /\ C21_NotReferenced /\ C21_AllFreed

\* AssociatedValue::operator=(AssociatedValue const &): returns *this and
\* assigns nothing
AssociatedValue_assign(target, source) == target

\* copy construction gives a payload that holds no Handle, copy assignment
\* leaves the Handle of the target, and initialize_copy never fails
C28_NotCopied ==
  /\ \A p \in 1..Len(payloads) :
       /\ AssociatedValue_copy(payloads[p]).value_ = NoValue
       /\ \A q \in 1..Len(payloads) :
            AssociatedValue_assign(payloads[p], payloads[q]).value_
              = payloads[p].value_
  /\ conv.op = "initialize_copy" => conv.out.st = "ok"

\* no two live payloads hold the same Handle
C28_OneOwner ==
  \A p, q \in Live :
    (payloads[p].value_ # NoValue /\ payloads[p].value_ = payloads[q].value_)
      => p = q

(* C28: the back-reference of a two-way-associated payload is never        *)
(* copied: a copy holds no Handle, copy assignment leaves the Handle of    *)
(* the target, initialize_copy from an associated source never fails, and  *)
(* no two live payloads hold the same owning Handle.                       *)
C28_BackReference == C28_NotCopied /\ C28_OneOwner

\* the shells at address a
ShellsAt(a) == {o \in 1..Len(objects) : objects[o].addr = a}

\* a step in which return_self was called: on a shell without payload the
\* conversion of the receiver fails; else the Handle returned is the address
\* of the receiver, and the shell at that address holds the same payload
C24_ReturnSelfStep ==
  (conv'.op = "return_self" /\ conv' # conv) =>
    IF conv'.input.i = 0
      THEN RuntimeErrorOf(conv'.out, "Object is not yet initialized")
      ELSE /\ conv'.out.st = "ok"
           /\ ShellsOf(conv'.input.i) # {}
           /\ ShellsAt(conv'.out.val.i) = ShellsOf(conv'.input.i)
           /\ \A o \in ShellsAt(conv'.out.val.i) :
                /\ HandleOf(o) = conv'.input
                /\ WrappedStruct_data(ConvOk(HandleOf(o), errinfo)).val.i
                     = conv'.input.i

\* a step in which native code converted a payload it made itself: the
\* conversion fails and gives no Handle
C24_NativeStep ==
  (conv'.op = "into_Value" /\ conv' # conv) =>
    RuntimeErrorOf(conv'.out, "This object is not managed by Ruby")

============================================================================
